---- MODULE Spec2Model ----
(***************************************************************************)
(* Model of the tourist scheduling engine of                               *)
(* src/tourist_scheduling_system/src/agents/tools.py: the process-wide     *)
(* scheduler state (two registries and the assignment ledger), the five    *)
(* tool functions that read or mutate it, and the greedy matching          *)
(* function _build_schedule.                                               *)
(*                                                                         *)
(* Time is counted in ticks, TicksPerHour of them to the hour, so that a    *)
(* window may last a fraction of an hour.  A timestamp argument is either  *)
(* a well-formed ISO string, modelled as the record [iso |-> tick], or a   *)
(* malformed string, modelled as BadTimestamp.  Budgets and hourly rates   *)
(* are integers; a total_cost, the product of a rate and a number of       *)
(* hours, is kept multiplied by TicksPerHour, which makes it the integer   *)
(* rate * ticks (half hours and small integers are exact in binary         *)
(* floating point, so nothing is lost).                                    *)
(***************************************************************************)
EXTENDS Integers, Sequences, FiniteSets, TLC

VARIABLES
    tourist_requests,   \* _scheduler_state.tourist_requests
    guide_offers,       \* _scheduler_state.guide_offers
    assignments,        \* _scheduler_state.assignments, the ledger
    result,             \* the value returned by the latest call
    previous,           \* which call came before the latest, and its status
    events,             \* the events the latest call handed to send_to_ui_agent
    calls               \* the calls in progress, when callers run concurrently

vars == <<tourist_requests, guide_offers, assignments, result, previous,
          events, calls>>

(***************************************************************************)
(* Bounds of the model.                                                    *)
(***************************************************************************)
MaxTime == 3
MaxMoney == 2
MaxGroup == 2

(* Ticks in an hour: the unit behind ".total_seconds() / 3600".            *)
TicksPerHour == 2

TouristIds == {"t1", "t2"}
GuideIds == {"g1", "g2"}

Times == 0..MaxTime

(* datetime.max, the sort key of a tourist without availability windows:   *)
(* later than every timestamp of the model.                                *)
DatetimeMax == 24 * TicksPerHour + MaxTime

None == [tag |-> "None"]

BadTimestamp == [bad |-> TRUE]

(***************************************************************************)
(* Value types of src/core/models.py, which is not part of the sources at  *)
(* hand: the constructors are modelled from the data model of the          *)
(* specification.                                                          *)
(***************************************************************************)
Window(start, end) == [start |-> start, end |-> end]

TouristRequest(tourist_id, availability, preferences, budget) ==
    [tourist_id |-> tourist_id, availability |-> availability,
     preferences |-> preferences, budget |-> budget]

GuideOffer(guide_id, categories, available_window, hourly_rate, max_group_size) ==
    [guide_id |-> guide_id, categories |-> categories,
     available_window |-> available_window, hourly_rate |-> hourly_rate,
     max_group_size |-> max_group_size]

Assignment(tourist_id, guide_id, time_window, categories, total_cost) ==
    [tourist_id |-> tourist_id, guide_id |-> guide_id,
     time_window |-> time_window, categories |-> categories,
     total_cost |-> total_cost]

(* Construction of a TouristRequest raises unless budget >= 0.             *)
TouristRequestValid(budget) == budget >= 0

(* Construction of a GuideOffer raises unless hourly_rate >= 0 and         *)
(* max_group_size >= 1.                                                    *)
GuideOfferValid(hourly_rate, max_group_size) ==
    hourly_rate >= 0 /\ max_group_size >= 1

(***************************************************************************)
(* datetime.fromisoformat: the tick of a well-formed string; raises        *)
(* ValueError on a malformed one.                                          *)
(***************************************************************************)
IsoParses(s) == "iso" \in DOMAIN s

fromisoformat(s) == s.iso

(***************************************************************************)
(* list helpers                                                            *)
(***************************************************************************)
(* The first of a set of indices, 0 when there is none: the position at   *)
(* which next((x for x in seq if ...), None) and list.remove stop.         *)
FirstOf(indices) ==
    IF indices = {} THEN 0
    ELSE CHOOSE i \in indices : \A j \in indices : i <= j

(* list.remove(x): drops the first element equal to x.                     *)
ListRemove(seq, x) ==
    LET i == FirstOf({k \in 1..Len(seq) : seq[k] = x})
    IN  IF i = 0 THEN seq
        ELSE SubSeq(seq, 1, i - 1) \o SubSeq(seq, i + 1, Len(seq))

(***************************************************************************)
(* Upsert of the two registration tools: find the first record with the    *)
(* same identity, remove it, append the new record.                        *)
(***************************************************************************)
(* variant: the new record is appended without removing the old one.       *)
UpsertTourist_NoRemove(registry, request) == Append(registry, request)

(* variant: the windows of the old record are kept in front of the new.    *)
UpsertTourist_MergeWindows(registry, request) ==
    LET i == FirstOf({k \in 1..Len(registry) :
                        registry[k].tourist_id = request.tourist_id})
    IN  IF i # 0
        THEN Append(ListRemove(registry, registry[i]),
                    [request EXCEPT !.availability =
                        registry[i].availability \o request.availability])
        ELSE Append(registry, request)

UpsertTourist(registry, request) ==
    LET i == FirstOf({k \in 1..Len(registry) :
                        registry[k].tourist_id = request.tourist_id})
    IN  IF i # 0
        THEN Append(ListRemove(registry, registry[i]), request)
        ELSE Append(registry, request)

(* variant: the new record is appended without removing the old one.       *)
UpsertGuide_NoRemove(registry, offer) == Append(registry, offer)

(* variant: the new record takes the place of the old one in the list.     *)
UpsertGuide_InPlace(registry, offer) ==
    LET i == FirstOf({k \in 1..Len(registry) :
                        registry[k].guide_id = offer.guide_id})
    IN  IF i # 0
        THEN [registry EXCEPT ![i] = offer]
        ELSE Append(registry, offer)

(* variant: the registration leaves the new record alone in the registry.  *)
UpsertGuide_DropsOthers(registry, offer) == <<offer>>

UpsertGuide(registry, offer) ==
    LET i == FirstOf({k \in 1..Len(registry) :
                        registry[k].guide_id = offer.guide_id})
    IN  IF i # 0
        THEN Append(ListRemove(registry, registry[i]), offer)
        ELSE Append(registry, offer)

(***************************************************************************)
(* _build_schedule: the greedy matching pass.                              *)
(***************************************************************************)
(* guide_capacity = {g.guide_id: g.max_group_size for g in guide_offers}:  *)
(* for an identity occurring twice the later offer wins.                   *)
InitialCapacity(offers) ==
    [id \in {offers[i].guide_id : i \in 1..Len(offers)} |->
        LET last == CHOOSE i \in 1..Len(offers) :
                        /\ offers[i].guide_id = id
                        /\ \A j \in (i + 1)..Len(offers) : offers[j].guide_id # id
        IN  offers[last].max_group_size]

(* key of sorted(): start of the first window, datetime.max without one.   *)
SortKey(t) ==
    IF Len(t.availability) > 0 THEN t.availability[1].start ELSE DatetimeMax

(* variant: t goes in front of the elements with its own key.              *)
InsertByKey_Unstable(sortedSeq, t) ==
    LET n == Cardinality({i \in 1..Len(sortedSeq) :
                              SortKey(sortedSeq[i]) < SortKey(t)})
    IN  SubSeq(sortedSeq, 1, n) \o <<t>> \o SubSeq(sortedSeq, n + 1, Len(sortedSeq))

(* One step of a stable sort: t goes behind every element whose key is     *)
(* not larger than its own.                                                *)
InsertByKey(sortedSeq, t) ==
    LET n == Cardinality({i \in 1..Len(sortedSeq) :
                              SortKey(sortedSeq[i]) <= SortKey(t)})
    IN  SubSeq(sortedSeq, 1, n) \o <<t>> \o SubSeq(sortedSeq, n + 1, Len(sortedSeq))

RECURSIVE SortFrom(_, _, _)
SortFrom(seq, i, acc) ==
    IF i > Len(seq) THEN acc
    ELSE SortFrom(seq, i + 1, InsertByKey(acc, seq[i]))

(* variant: tourists are served in registry order.                         *)
SortedTourists_Unsorted(tourists) == tourists

SortedTourists(tourists) == SortFrom(tourists, 1, <<>>)

Max2(a, b) == IF a >= b THEN a ELSE b
Min2(a, b) == IF a <= b THEN a ELSE b

(* variant: the tourist window is used as it is.                           *)
OverlapOf_TouristWindow(tourist_window, guide_window) == tourist_window

(* Intersection of a tourist window with the guide window.                 *)
OverlapOf(tourist_window, guide_window) ==
    Window(Max2(tourist_window.start, guide_window.start),
           Min2(tourist_window.end, guide_window.end))

(* variant: an overlap of a single tick does not count.                    *)
IsOverlap_LongerThanTick(w) == w.start + 1 < w.end

(* "There's overlap if start is before end".                               *)
IsOverlap(w) == w.start < w.end

(* variant: the scan goes on to the last window that intersects.           *)
FindOverlap_Last(availability, guide_window, k) ==
    LET hits == {n \in k..Len(availability) :
                    IsOverlap(OverlapOf(availability[n], guide_window))}
    IN  IF hits = {} THEN None
        ELSE OverlapOf(availability[CHOOSE n \in hits : \A m \in hits : m <= n],
                       guide_window)

(* The overlap with the first tourist window that intersects the guide     *)
(* window, None when no window does.                                       *)
RECURSIVE FindOverlap(_, _, _)
FindOverlap(availability, guide_window, k) ==
    IF k > Len(availability) THEN None
    ELSE LET w == OverlapOf(availability[k], guide_window)
         IN  IF IsOverlap(w) THEN w
             ELSE FindOverlap(availability, guide_window, k + 1)

(* variant: the seat counter is never consulted.                           *)
CapacityExhausted_Never(guide_capacity, guide) == FALSE

(* "Check capacity": the guide is skipped when this holds.                 *)
CapacityExhausted(guide_capacity, guide) == guide_capacity[guide.guide_id] <= 0

(* variant: the comparison is inverted.                                    *)
OverBudget_Inverted(tourist, guide) == tourist.budget > guide.hourly_rate

(* "Check budget": the guide is skipped when this holds.                   *)
OverBudget(tourist, guide) == tourist.budget < guide.hourly_rate

(* sum(1 for cat in tourist.preferences if cat in guide.categories)        *)
PreferenceScore(tourist, guide) ==
    Cardinality({i \in 1..Len(tourist.preferences) :
                    \E j \in 1..Len(guide.categories) :
                        guide.categories[j] = tourist.preferences[i]})

(* variant: a guide that only equals the best score replaces it.           *)
Improves_OrEqual(score, best_score) == score >= best_score

(* "if score > best_score"                                                 *)
Improves(score, best_score) == score > best_score

(* variant: the scan starts from a best score of 0.                        *)
NoBest_ZeroScore == [guide |-> None, overlap |-> None, score |-> 0]

(* best_guide = None, best_overlap = None, best_score = -1                 *)
NoBest == [guide |-> None, overlap |-> None, score |-> -1]

(* The inner loop over the guides, in registry order.                      *)
RECURSIVE ScanGuides(_, _, _, _, _)
ScanGuides(tourist, offers, guide_capacity, i, best) ==
    IF i > Len(offers) THEN best
    ELSE LET guide == offers[i]
             overlap_window == FindOverlap(tourist.availability,
                                           guide.available_window, 1)
         IN  IF CapacityExhausted(guide_capacity, guide)
             THEN ScanGuides(tourist, offers, guide_capacity, i + 1, best)
             ELSE IF OverBudget(tourist, guide)
             THEN ScanGuides(tourist, offers, guide_capacity, i + 1, best)
             ELSE IF overlap_window = None
             THEN ScanGuides(tourist, offers, guide_capacity, i + 1, best)
             ELSE IF Improves(PreferenceScore(tourist, guide), best.score)
             THEN ScanGuides(tourist, offers, guide_capacity, i + 1,
                             [guide |-> guide, overlap |-> overlap_window,
                              score |-> PreferenceScore(tourist, guide)])
             ELSE ScanGuides(tourist, offers, guide_capacity, i + 1, best)

(* variant: the guide is paid for its whole window.                        *)
TotalCost_GuideWindow(guide, overlap) ==
    guide.hourly_rate * (guide.available_window.end - guide.available_window.start)

(* total_cost = hourly_rate * duration_hours, times TicksPerHour.          *)
TotalCost(guide, overlap) == guide.hourly_rate * (overlap.end - overlap.start)

MakeAssignment(tourist, best) ==
    Assignment(tourist.tourist_id, best.guide.guide_id, best.overlap,
               best.guide.categories, TotalCost(best.guide, best.overlap))

(* variant: the seat of the new assignment is not counted.                 *)
TakeSeat_Forgotten(guide_capacity, guide) == guide_capacity

(* guide_capacity[best_guide.guide_id] -= 1                                *)
TakeSeat(guide_capacity, guide) ==
    [guide_capacity EXCEPT ![guide.guide_id] = @ - 1]

(* variant: a tourist that was assigned has another turn.                  *)
RECURSIVE ScanTourists_AnotherTurn(_, _, _, _, _)
ScanTourists_AnotherTurn(sorted, offers, k, guide_capacity, acc) ==
    IF k > Len(sorted) THEN acc
    ELSE LET tourist == sorted[k]
             best == ScanGuides(tourist, offers, guide_capacity, 1, NoBest)
         IN  IF Len(tourist.availability) = 0
             THEN ScanTourists_AnotherTurn(sorted, offers, k + 1,
                                           guide_capacity, acc)
             ELSE IF best.guide # None /\ best.overlap # None
             THEN ScanTourists_AnotherTurn(sorted, offers, k,
                               TakeSeat(guide_capacity, best.guide),
                               Append(acc, MakeAssignment(tourist, best)))
             ELSE ScanTourists_AnotherTurn(sorted, offers, k + 1,
                                           guide_capacity, acc)

(* The outer loop over the sorted tourists.                                *)
RECURSIVE ScanTourists(_, _, _, _, _)
ScanTourists(sorted, offers, k, guide_capacity, acc) ==
    IF k > Len(sorted) THEN acc
    ELSE LET tourist == sorted[k]
             best == ScanGuides(tourist, offers, guide_capacity, 1, NoBest)
         IN  IF Len(tourist.availability) = 0
             THEN ScanTourists(sorted, offers, k + 1, guide_capacity, acc)
             ELSE IF best.guide # None /\ best.overlap # None
             THEN ScanTourists(sorted, offers, k + 1,
                               TakeSeat(guide_capacity, best.guide),
                               Append(acc, MakeAssignment(tourist, best)))
             ELSE ScanTourists(sorted, offers, k + 1, guide_capacity, acc)

BuildSchedule(tourists, offers) ==
    ScanTourists(SortedTourists(tourists), offers, 1,
                 InitialCapacity(offers), <<>>)

(***************************************************************************)
(* Arguments of the calls.  preferences and categories are passed as       *)
(* lists, so the branch that decodes a string (tools.py:176-185, 276-286)  *)
(* is not taken.  Beside well-formed arguments there are a tourist whose   *)
(* window is empty (start = end), malformed timestamps, a negative budget  *)
(* or rate, and a max_group_size of 0.                                     *)
(***************************************************************************)
Iso(n) == [iso |-> n]

TouristArgs ==
    [tourist_id : TouristIds,
     availability_start : {Iso(0)},
     availability_end : {Iso(MaxTime)},
     preferences : {<<"culture">>},
     budget : {1}]
    \cup
    [tourist_id : TouristIds,
     availability_start : {Iso(1)},
     availability_end : {Iso(1)},
     preferences : {<<"culture">>},
     budget : {1}]
    \cup
    [tourist_id : {"t1"},
     availability_start : {Iso(0)},
     availability_end : {Iso(MaxTime)},
     preferences : {<<"culture">>},
     budget : {-1}]
    \cup
    [tourist_id : {"t1"},
     availability_start : {BadTimestamp},
     availability_end : {Iso(MaxTime)},
     preferences : {<<"culture">>},
     budget : {1}]

GuideArgs ==
    [guide_id : GuideIds,
     categories : {<<"culture">>},
     available_start : {Iso(0)},
     available_end : {Iso(MaxTime)},
     hourly_rate : {1},
     max_group_size : {1, MaxGroup}]
    \cup
    [guide_id : {"g1"},
     categories : {<<"culture">>},
     available_start : {Iso(0)},
     available_end : {Iso(MaxTime)},
     hourly_rate : {1},
     max_group_size : {0}]
    \cup
    [guide_id : {"g1"},
     categories : {<<"culture">>},
     available_start : {Iso(0), BadTimestamp},
     available_end : {Iso(MaxTime)},
     hourly_rate : {-1},
     max_group_size : {1}]

Called == [op |-> result.op, status |-> result.status]

(***************************************************************************)
(* The notification sink.  send_to_ui_agent starts a daemon thread that    *)
(* posts the event and joins it for at most two seconds; the thread logs   *)
(* and swallows every exception.  Whatever the delivery does, the call     *)
(* returns to its caller without a value and without raising.              *)
(***************************************************************************)
SinkOutcomes == {"delivered", "failed", "pending"}

(* variant: a failed delivery raises in the caller.                        *)
send_to_ui_agent_Propagates(outcome) ==
    IF outcome = "failed" THEN "raised" ELSE "returned"

send_to_ui_agent(outcome) == "returned"

(* variant: the dashboard log entry goes out under another type.           *)
CommunicationEvent_Log(source_agent, target_agent, message_type) ==
    [type |-> "log", source_agent |-> source_agent,
     target_agent |-> target_agent, message_type |-> message_type]

(* send_communication_event: one more event, of type communication_event.  *)
CommunicationEvent(source_agent, target_agent, message_type) ==
    [type |-> "communication_event", source_agent |-> source_agent,
     target_agent |-> target_agent, message_type |-> message_type]

(* variant: the exception leaves the function.                             *)
ErrorResult_Reraise(op, message) ==
    [op |-> op, status |-> "raised", message |-> message]

(* The events of one call as the sink sees them.  Every event goes through *)
(* its own thread; the model gives the deliveries of one call one outcome. *)
Dispatched(sent, outcome) ==
    [k \in 1..Len(sent) |-> [event |-> sent[k], delivery |-> outcome]]

(* "except Exception as e: return {status: error, message: str(e)}"        *)
ErrorResult(op, message) ==
    [op |-> op, status |-> "error", message |-> message]

(* variant: the size before the append.                                    *)
QueuePosition_BeforeAppend(registry) == Len(registry) - 1

(* "queue_position": len(_scheduler_state.tourist_requests), and the same  *)
(* for "total_guides".                                                     *)
QueuePosition(registry) == Len(registry)

(* variant: the constructor accepts every argument.                        *)
TouristRequestRaises_Never(a) == FALSE

(* "request = TouristRequest(...)" runs the model's validators inside the  *)
(* try block and raises when one of them fails.                            *)
TouristRequestRaises(a) == ~TouristRequestValid(a.budget)

(* variant: the constructor accepts every argument.                        *)
GuideOfferRaises_Never(a) == FALSE

(* "offer = GuideOffer(...)", likewise.                                    *)
GuideOfferRaises(a) == ~GuideOfferValid(a.hourly_rate, a.max_group_size)

(***************************************************************************)
(* register_tourist_request: the registry, the returned value and the      *)
(* events of a call with arguments a on the given registry.                *)
(***************************************************************************)
RegisterTouristCall(registry, a, outcome) ==
    IF ~(IsoParses(a.availability_start) /\ IsoParses(a.availability_end))
    THEN [registry |-> registry,
          result |-> ErrorResult("register_tourist_request",
                                 "Invalid isoformat string"),
          events |-> <<>>]
    ELSE IF TouristRequestRaises(a)
    THEN [registry |-> registry,
          result |-> ErrorResult("register_tourist_request", "validation error"),
          events |-> <<>>]
    ELSE LET window == Window(fromisoformat(a.availability_start),
                              fromisoformat(a.availability_end))
             request == TouristRequest(a.tourist_id, <<window>>,
                                       a.preferences, a.budget)
             upserted == UpsertTourist(registry, request)
             sent == <<[type |-> "tourist_request",
                        tourist_id |-> a.tourist_id,
                        preferences |-> a.preferences,
                        budget |-> a.budget],
                       CommunicationEvent(a.tourist_id, "scheduler", "TouristRequest")>>
         IN  IF send_to_ui_agent(outcome) = "raised"
             THEN [registry |-> upserted,
                   result |-> ErrorResult("register_tourist_request", "send failed"),
                   events |-> Dispatched(sent, outcome)]
             ELSE [registry |-> upserted,
                   result |-> [op |-> "register_tourist_request",
                               status |-> "registered",
                               tourist_id |-> a.tourist_id,
                               request |-> request,
                               queue_position |-> QueuePosition(upserted)],
                   events |-> Dispatched(sent, outcome)]

TouristCallStep(a, outcome) ==
    LET out == RegisterTouristCall(tourist_requests, a, outcome)
    IN  /\ tourist_requests' = out.registry
        /\ result' = out.result
        /\ events' = out.events
        /\ previous' = Called
        /\ UNCHANGED <<guide_offers, assignments, calls>>

register_tourist_request ==
    \E a \in TouristArgs : TouristCallStep(a, "delivered")

(***************************************************************************)
(* register_guide_offer                                                    *)
(***************************************************************************)
RegisterGuideCall(registry, a, outcome) ==
    IF ~(IsoParses(a.available_start) /\ IsoParses(a.available_end))
    THEN [registry |-> registry,
          result |-> ErrorResult("register_guide_offer", "Invalid isoformat string"),
          events |-> <<>>]
    ELSE IF GuideOfferRaises(a)
    THEN [registry |-> registry,
          result |-> ErrorResult("register_guide_offer", "validation error"),
          events |-> <<>>]
    ELSE LET window == Window(fromisoformat(a.available_start),
                              fromisoformat(a.available_end))
             offer == GuideOffer(a.guide_id, a.categories, window,
                                 a.hourly_rate, a.max_group_size)
             upserted == UpsertGuide(registry, offer)
             sent == <<[type |-> "guide_offer",
                        guide_id |-> a.guide_id,
                        categories |-> a.categories,
                        hourly_rate |-> a.hourly_rate,
                        max_group_size |-> a.max_group_size],
                       CommunicationEvent(a.guide_id, "scheduler", "GuideOffer")>>
         IN  IF send_to_ui_agent(outcome) = "raised"
             THEN [registry |-> upserted,
                   result |-> ErrorResult("register_guide_offer", "send failed"),
                   events |-> Dispatched(sent, outcome)]
             ELSE [registry |-> upserted,
                   result |-> [op |-> "register_guide_offer",
                               status |-> "registered",
                               guide_id |-> a.guide_id,
                               offer |-> offer,
                               total_guides |-> QueuePosition(upserted)],
                   events |-> Dispatched(sent, outcome)]

GuideCallStep(a, outcome) ==
    LET out == RegisterGuideCall(guide_offers, a, outcome)
    IN  /\ guide_offers' = out.registry
        /\ result' = out.result
        /\ events' = out.events
        /\ previous' = Called
        /\ UNCHANGED <<tourist_requests, assignments, calls>>

register_guide_offer ==
    \E a \in GuideArgs : GuideCallStep(a, "delivered")

(***************************************************************************)
(* run_scheduling                                                          *)
(***************************************************************************)
(* "if not tourists"                                                       *)
NoTourists(tourists) == Len(tourists) = 0

(* variant: the guard on the guide registry is missing.                    *)
NoGuides_Unchecked(guides) == FALSE

(* "if not guides"                                                         *)
NoGuides(guides) == Len(guides) = 0

(* variant: the run extends the ledger instead of replacing it.            *)
NewLedger_Extend(ledger, schedule) == ledger \o schedule

(* "_scheduler_state.assignments = assignments"                            *)
NewLedger(ledger, schedule) == schedule

(* variant: the guides the run has filled leave the registry.              *)
GuidesAfterRun_DropFull(offers, schedule) ==
    LET HasSeat(g) ==
            Cardinality({k \in 1..Len(schedule) : schedule[k].guide_id = g.guide_id})
                < g.max_group_size
    IN  SelectSeq(offers, HasSeat)

(* variant: seats are taken from max_group_size of the offers themselves.  *)
GuidesAfterRun_InPlace(offers, schedule) ==
    [i \in 1..Len(offers) |->
        [offers[i] EXCEPT !.max_group_size =
            @ - Cardinality({k \in 1..Len(schedule) :
                                schedule[k].guide_id = offers[i].guide_id})]]

(* _build_schedule counts seats in its own guide_capacity dict: the offers *)
(* of the registry are the same after the run.                             *)
GuidesAfterRun(offers, schedule) == offers

IdsOfTourists(ledger) == {ledger[i].tourist_id : i \in 1..Len(ledger)}
IdsOfGuides(ledger) == {ledger[i].guide_id : i \in 1..Len(ledger)}

(* A quotient of two integers, kept as the pair.                           *)
Ratio(num, den) == [num |-> num, den |-> den]

RECURSIVE SumCost(_, _)
SumCost(schedule, k) ==
    IF k > Len(schedule) THEN 0
    ELSE schedule[k].total_cost + SumCost(schedule, k + 1)

(* variant: utilization counts assignments, not distinct guides.           *)
MetricsEvent_PerAssignment(tourists, guides, schedule) ==
    [type |-> "metrics",
     total_tourists |-> Len(tourists),
     total_guides |-> Len(guides),
     total_assignments |-> Len(schedule),
     satisfied_tourists |-> Cardinality(IdsOfTourists(schedule)),
     guide_utilization |-> Ratio(Len(schedule), Len(guides)),
     avg_assignment_cost |-> IF Len(schedule) > 0
                             THEN Ratio(SumCost(schedule, 1), Len(schedule))
                             ELSE Ratio(0, 1)]

(* The "metrics" event of a run; the run only gets here with guides.       *)
MetricsEvent(tourists, guides, schedule) ==
    [type |-> "metrics",
     total_tourists |-> Len(tourists),
     total_guides |-> Len(guides),
     total_assignments |-> Len(schedule),
     satisfied_tourists |-> Cardinality(IdsOfTourists(schedule)),
     guide_utilization |-> Ratio(Cardinality(IdsOfGuides(schedule)), Len(guides)),
     avg_assignment_cost |-> IF Len(schedule) > 0
                             THEN Ratio(SumCost(schedule, 1), Len(schedule))
                             ELSE Ratio(0, 1)]

(* variant: only the first assignment is announced.                        *)
AssignmentEvents_FirstOnly(schedule, k) ==
    IF k > Len(schedule) \/ k > 1 THEN <<>>
    ELSE <<[type |-> "assignment",
            tourist_id |-> schedule[k].tourist_id,
            guide_id |-> schedule[k].guide_id,
            total_cost |-> schedule[k].total_cost],
           CommunicationEvent("scheduler", schedule[k].tourist_id, "Assignment")>>

(* Per assignment: the "assignment" event, then a communication event.     *)
RECURSIVE AssignmentEvents(_, _)
AssignmentEvents(schedule, k) ==
    IF k > Len(schedule) THEN <<>>
    ELSE <<[type |-> "assignment",
            tourist_id |-> schedule[k].tourist_id,
            guide_id |-> schedule[k].guide_id,
            total_cost |-> schedule[k].total_cost],
           CommunicationEvent("scheduler", schedule[k].tourist_id, "Assignment")>>
         \o AssignmentEvents(schedule, k + 1)

(* ScheduleProposal(tourist_id, assignments = [assignment], "proposed")    *)
Proposals(schedule) ==
    [k \in 1..Len(schedule) |->
        [tourist_id |-> schedule[k].tourist_id,
         assignments |-> <<schedule[k]>>,
         status |-> "proposed"]]

(* The value a completed run returns.  The message is the text "Scheduled  *)
(* {n} assignments from {t} tourists and {g} guides", kept as its numbers. *)
CompletedResult(tourists, guides, ledger) ==
    [op |-> "run_scheduling",
     status |-> "completed",
     message |-> [assignments |-> Len(ledger), tourists |-> Len(tourists),
                  guides |-> Len(guides)],
     num_assignments |-> Len(ledger),
     assignments |-> ledger,
     proposals |-> Proposals(ledger)]

(* The state, the returned value and the events of a run.                  *)
RunCall(tourists, guides, ledger, outcome) ==
    LET schedule == BuildSchedule(tourists, guides)
        stored == NewLedger(ledger, schedule)
        sent == AssignmentEvents(stored, 1)
                    \o <<MetricsEvent(tourists, guides, stored)>>
    IN  IF NoTourists(tourists)
        THEN [assignments |-> ledger, guide_offers |-> guides,
              result |-> [op |-> "run_scheduling", status |-> "no_tourists",
                          assignments |-> <<>>],
              events |-> <<>>]
        ELSE IF NoGuides(guides)
        THEN [assignments |-> ledger, guide_offers |-> guides,
              result |-> [op |-> "run_scheduling", status |-> "no_guides",
                          assignments |-> <<>>],
              events |-> <<>>]
        ELSE IF send_to_ui_agent(outcome) = "raised"
        THEN [assignments |-> stored,
              guide_offers |-> GuidesAfterRun(guides, schedule),
              result |-> ErrorResult("run_scheduling", "send failed"),
              events |-> Dispatched(sent, outcome)]
        ELSE [assignments |-> stored,
              guide_offers |-> GuidesAfterRun(guides, schedule),
              result |-> CompletedResult(tourists, guides, stored),
              events |-> Dispatched(sent, outcome)]

RunStep(outcome) ==
    LET out == RunCall(tourist_requests, guide_offers, assignments, outcome)
    IN  /\ assignments' = out.assignments
        /\ guide_offers' = out.guide_offers
        /\ result' = out.result
        /\ events' = out.events
        /\ previous' = Called
        /\ UNCHANGED <<tourist_requests, calls>>

run_scheduling == RunStep("delivered")

(***************************************************************************)
(* get_schedule_status                                                     *)
(***************************************************************************)
(* round(num / den * 100, 1) in tenths of a percent: the nearest tenth,    *)
(* the even one of two equally near.                                       *)
PercentTenths(num, den) ==
    LET q == (1000 * num) \div den
        r == (1000 * num) % den
    IN  IF 2 * r < den THEN q
        ELSE IF 2 * r > den THEN q + 1
        ELSE IF q % 2 = 0 THEN q ELSE q + 1

(* variant: every assignment counts as a satisfied tourist or a used guide.*)
ServedPercent_PerAssignment(served, ledger, total) ==
    IF total > 0 THEN PercentTenths(Len(ledger), total) ELSE 0

(* "len(assigned) / total * 100 if total > 0 else 0", rounded as above.    *)
ServedPercent(served, ledger, total) ==
    IF total > 0 THEN PercentTenths(Cardinality(served), total) ELSE 0

StatusResult(tourists, guides, ledger) ==
    [op |-> "get_schedule_status",
     status |-> "ok",
     total_tourists |-> Len(tourists),
     total_guides |-> Len(guides),
     total_assignments |-> Len(ledger),
     tourist_satisfaction_pct |->
         ServedPercent(IdsOfTourists(ledger), ledger, Len(tourists)),
     guide_utilization_pct |->
         ServedPercent(IdsOfGuides(ledger), ledger, Len(guides)),
     pending_tourists |-> Len(tourists) - Cardinality(IdsOfTourists(ledger)),
     available_guides |-> Len(guides) - Cardinality(IdsOfGuides(ledger))]

get_schedule_status ==
    /\ result' = StatusResult(tourist_requests, guide_offers, assignments)
    /\ events' = <<>>
    /\ previous' = Called
    /\ UNCHANGED <<tourist_requests, guide_offers, assignments, calls>>

(***************************************************************************)
(* clear_scheduler_state                                                   *)
(***************************************************************************)
(* SchedulerState(): a state with empty registries and an empty ledger.    *)
SchedulerState ==
    [tourist_requests |-> <<>>, guide_offers |-> <<>>, assignments |-> <<>>]

(* variant: the registries are emptied, the ledger is kept.                *)
Reset_KeepLedger(state) == [SchedulerState EXCEPT !.assignments = state.assignments]

(* "global _scheduler_state; _scheduler_state = SchedulerState()"          *)
Reset(state) == SchedulerState

clear_scheduler_state ==
    LET fresh == Reset([tourist_requests |-> tourist_requests,
                        guide_offers |-> guide_offers,
                        assignments |-> assignments])
    IN  /\ tourist_requests' = fresh.tourist_requests
        /\ guide_offers' = fresh.guide_offers
        /\ assignments' = fresh.assignments
        /\ result' = [op |-> "clear_scheduler_state", status |-> "cleared"]
        /\ events' = <<>>
        /\ previous' = Called
        /\ UNCHANGED calls

(***************************************************************************)
(* The tools called one at a time, from the state at import.               *)
(***************************************************************************)
NoCall == [op |-> "none", status |-> "none"]

(* No caller runs concurrently with the call in hand.                      *)
NoCalls == <<>>

Init ==
    /\ tourist_requests = SchedulerState.tourist_requests
    /\ guide_offers = SchedulerState.guide_offers
    /\ assignments = SchedulerState.assignments
    /\ result = NoCall
    /\ previous = NoCall
    /\ events = <<>>
    /\ calls = NoCalls

Next ==
    \/ register_tourist_request
    \/ register_guide_offer
    \/ run_scheduling
    \/ get_schedule_status
    \/ clear_scheduler_state

Spec == Init /\ [][Next]_vars

(***************************************************************************)
(* Two callers inside register_tourist_request at once.  The module holds  *)
(* no lock, so the threads interleave between the bytecodes of             *)
(*     existing = next((t for t in registry if t.tourist_id == id), None)  *)
(*     if existing: registry.remove(existing)                              *)
(*     registry.append(request)                                            *)
(* The generator reads the list by index, one item per step.  list.remove  *)
(* scans by index as well: an item that is the object sought is deleted in *)
(* the same step; any other item is compared with the model's __eq__,      *)
(* which is Python code and lets the other thread run.  A scan that runs   *)
(* off the end raises ValueError, which the except branch of the call      *)
(* turns into an "error" result.  append is one step.  Each call has built *)
(* its request before (parsing and validation touch no shared state); the  *)
(* value it returns is kept without its queue_position.  register_guide_   *)
(* offer has the same three statements on the guide registry.              *)
(***************************************************************************)
Callers == {1, 2}

ConcurrentIds == TouristIds \cup {"t0"}

RegisteredBefore(id) == TouristRequest(id, <<Window(0, MaxTime)>>, <<"culture">>, 1)

ConcurrentRegistries ==
    {registry \in UNION {[1..n -> {RegisteredBefore(id) : id \in ConcurrentIds}] :
                             n \in 0..Cardinality(ConcurrentIds)} :
        \A i, j \in 1..Len(registry) : registry[i] = registry[j] => i = j}

FirstRequests ==
    {TouristRequest("t1", <<Window(1, MaxTime)>>, <<"culture">>, MaxMoney)}

SecondRequests ==
    {TouristRequest("t1", <<Window(1, MaxTime)>>, <<"culture">>, MaxMoney),
     TouristRequest("t1", <<Window(0, 1)>>, <<"culture">>, MaxMoney),
     TouristRequest("t2", <<Window(0, 1)>>, <<"culture">>, MaxMoney)}

NewCall(request, registry) ==
    [pc |-> "find", request |-> request, index |-> 1, existing |-> None,
     returned |-> None, registry_at_call |-> registry]

(* variant: the deletion takes the rest of the list with it.               *)
ListDelete_Truncate(list, i) == SubSeq(list, 1, i - 1)

(* The list without its i-th item, as list.remove leaves it.               *)
ListDelete(list, i) == SubSeq(list, 1, i - 1) \o SubSeq(list, i + 1, Len(list))

(* One step of the generator inside next(...).                             *)
FindExisting(c) ==
    /\ calls[c].pc = "find"
    /\ calls' =
          IF calls[c].index > Len(tourist_requests)
          THEN [calls EXCEPT ![c].pc = "append"]
          ELSE IF tourist_requests[calls[c].index].tourist_id
                      = calls[c].request.tourist_id
          THEN [calls EXCEPT ![c].existing = tourist_requests[calls[c].index],
                             ![c].pc = "remove",
                             ![c].index = 1]
          ELSE [calls EXCEPT ![c].index = @ + 1]
    /\ UNCHANGED <<tourist_requests, guide_offers, assignments, result,
                   previous, events>>

(* One step of the scan inside registry.remove(existing).                  *)
RemoveExisting(c) ==
    /\ calls[c].pc = "remove"
    /\ IF calls[c].index > Len(tourist_requests)
       THEN /\ calls' = [calls EXCEPT
                            ![c].pc = "done",
                            ![c].returned =
                                ErrorResult("register_tourist_request",
                                            "list.remove(x): x not in list")]
            /\ UNCHANGED tourist_requests
       ELSE IF tourist_requests[calls[c].index] = calls[c].existing
       THEN /\ tourist_requests' = ListDelete(tourist_requests, calls[c].index)
            /\ calls' = [calls EXCEPT ![c].pc = "append"]
       ELSE /\ calls' = [calls EXCEPT ![c].index = @ + 1]
            /\ UNCHANGED tourist_requests
    /\ UNCHANGED <<guide_offers, assignments, result, previous, events>>

(* registry.append(request), and the return of the call.                   *)
AppendRequest(c) ==
    /\ calls[c].pc = "append"
    /\ tourist_requests' = Append(tourist_requests, calls[c].request)
    /\ calls' = [calls EXCEPT
                    ![c].pc = "done",
                    ![c].returned = [op |-> "register_tourist_request",
                                     status |-> "registered",
                                     tourist_id |-> calls[c].request.tourist_id]]
    /\ UNCHANGED <<guide_offers, assignments, result, previous, events>>

InitConc ==
    /\ tourist_requests \in ConcurrentRegistries
    /\ guide_offers = SchedulerState.guide_offers
    /\ assignments = SchedulerState.assignments
    /\ result = NoCall
    /\ previous = NoCall
    /\ events = <<>>
    /\ \E first \in FirstRequests, second \in SecondRequests :
          calls = <<NewCall(first, tourist_requests),
                    NewCall(second, tourist_requests)>>

NextConc ==
    \E c \in Callers :
        \/ FindExisting(c)
        \/ RemoveExisting(c)
        \/ AppendRequest(c)

SpecConc == InitConc /\ [][NextConc]_vars

(***************************************************************************)
(* The calls that notify the sink, with every outcome of the deliveries.   *)
(***************************************************************************)
register_tourist_request_any_sink ==
    \E a \in TouristArgs : \E outcome \in SinkOutcomes : TouristCallStep(a, outcome)

(* One guide suffices for the runs to have assignments to announce.        *)
register_guide_offer_any_sink ==
    \E a \in {x \in GuideArgs : x.guide_id = "g1"} :
        \E outcome \in SinkOutcomes : GuideCallStep(a, outcome)

run_scheduling_any_sink == \E outcome \in SinkOutcomes : RunStep(outcome)

NextSink ==
    \/ register_tourist_request_any_sink
    \/ register_guide_offer_any_sink
    \/ run_scheduling_any_sink

SpecSink == Init /\ [][NextSink]_vars

(***************************************************************************)
(* Runs of the matching pass over the registries that registrations can    *)
(* build: up to two tourists and two guides, identities distinct, every    *)
(* tourist with the single window register_tourist_request gives it,       *)
(* every record one that the constructors accept.  Identities are only     *)
(* ever compared for equality, so the first record is the one of "t1"      *)
(* (resp. "g1").                                                           *)
(***************************************************************************)
TouristWindows == {Window(s, e) : s \in 0..1, e \in {1, MaxTime}}

GuideWindows == {Window(0, MaxTime), Window(0, 1), Window(1, MaxTime)}

TouristRecords(id) ==
    {TouristRequest(id, <<w>>, <<"culture", "food">>, b) :
        w \in TouristWindows, b \in {1, MaxMoney}}

GuideRecords(id) ==
    {GuideOffer(id, c, w, r[1], r[2]) :
        c \in {<<"culture">>, <<"food", "culture">>},
        w \in GuideWindows,
        r \in {1, MaxMoney} \X {1, MaxGroup}}

TouristRegistries ==
    {<<>>} \cup {<<a>> : a \in TouristRecords("t1")}
           \cup {<<a, b>> : a \in TouristRecords("t1"), b \in TouristRecords("t2")}

GuideRegistries ==
    {<<>>} \cup {<<a>> : a \in GuideRecords("g1")}
           \cup {<<a, b>> : a \in GuideRecords("g1"), b \in GuideRecords("g2")}

(* The worked example: tourist t1 free 09:00-17:00 with budget 100, guide   *)
(* g1 free 10:00-14:00 at rate 50 for up to 5 tourists.                    *)
ExampleTourists ==
    <<TouristRequest("t1", <<Window(9 * TicksPerHour, 17 * TicksPerHour)>>,
                     <<"culture", "history">>, 100)>>

ExampleGuides ==
    <<GuideOffer("g1", <<"culture", "history", "food">>,
                 Window(10 * TicksPerHour, 14 * TicksPerHour), 50, 5)>>

InitRun ==
    /\ tourist_requests \in TouristRegistries \cup {ExampleTourists}
    /\ guide_offers \in GuideRegistries \cup {ExampleGuides}
    /\ assignments = SchedulerState.assignments
    /\ result = NoCall
    /\ previous = NoCall
    /\ events = <<>>
    /\ calls = NoCalls

NextRun == run_scheduling

SpecRun == InitRun /\ [][NextRun]_vars

(***************************************************************************)
(* _build_schedule as a function of its two arguments.  Its parameter is a *)
(* list of TouristRequest, whose availability is a list of windows: the    *)
(* arguments below include tourists without a window and with two, which   *)
(* the function provides for ("if t.availability else datetime.max", "if   *)
(* not tourist.availability: continue", "for tourist_window in ...").      *)
(***************************************************************************)
EngineAvailabilities ==
    {<<>>,
     <<Window(0, 1)>>,
     <<Window(1, MaxTime)>>,
     <<Window(0, 1), Window(0, MaxTime)>>,
     <<Window(0, 1), Window(1, MaxTime)>>,
     <<Window(1, MaxTime), Window(0, 1)>>}

EngineTourists(id, preferences) ==
    {TouristRequest(id, a, preferences, b) :
        a \in EngineAvailabilities, b \in {1, MaxMoney}}

EngineGuides(id, windows) ==
    {GuideOffer(id, c, w, r[1], r[2]) :
        c \in {<<"culture">>, <<"art">>, <<"food", "culture">>},
        w \in windows,
        r \in {1, MaxMoney} \X {1, MaxGroup}}

EngineTouristLists ==
    {<<>>} \cup {<<a>> : a \in EngineTourists("t1", <<"culture", "food">>)}
           \cup {<<a, b>> : a \in EngineTourists("t1", <<"culture", "food">>),
                            b \in EngineTourists("t2", <<"culture">>)}
           \cup {<<a, b, c>> : a \in EngineTourists("t1", <<"culture", "food">>),
                     b \in EngineTourists("t2", <<"culture">>),
                     c \in {TouristRequest("t3", <<>>, <<"culture", "food">>, MaxMoney),
                            TouristRequest("t3", <<Window(0, MaxTime)>>,
                                           <<"culture", "food">>, MaxMoney)}}

EngineGuideLists ==
    {<<>>} \cup {<<a>> : a \in EngineGuides("g1", {Window(0, MaxTime), Window(1, MaxTime)})}
           \cup {<<a, b>> :
                     a \in EngineGuides("g1", {Window(0, MaxTime), Window(1, MaxTime)}),
                     b \in EngineGuides("g2", {Window(0, MaxTime)})}

InitEngine ==
    /\ tourist_requests \in EngineTouristLists
    /\ guide_offers \in EngineGuideLists
    /\ assignments = SchedulerState.assignments
    /\ result = NoCall
    /\ previous = NoCall
    /\ events = <<>>
    /\ calls = NoCalls

build_schedule ==
    /\ result' = [op |-> "_build_schedule", status |-> "returned",
                  assignments |-> BuildSchedule(tourist_requests, guide_offers)]
    /\ UNCHANGED <<tourist_requests, guide_offers, assignments, previous,
                   events, calls>>

NextEngine == build_schedule

SpecEngine == InitEngine /\ [][NextEngine]_vars

(***************************************************************************)
(* One call at a time, statement by statement.  calls holds the frame of   *)
(* the call in progress: its position pc, its locals, the events still to  *)
(* send (outbox) and the notification thread it is joining.  events is     *)
(* what the call has handed to send_to_ui_agent so far.                    *)
(*                                                                         *)
(* send_to_ui_agent starts a daemon thread and joins it with timeout=2.0:  *)
(* the join returns when the thread has ended or when the timeout has      *)
(* passed.  The thread ends when the sink answers (delivered) or the post  *)
(* fails; the sink may also never answer.                                  *)
(***************************************************************************)
JoinTimeout == 2

(* variant: thread.join() without a timeout.                               *)
JoinReturns_WithoutTimeout(thread, waited) == thread \in {"delivered", "failed"}

(* thread.join(timeout=2.0)                                                *)
JoinReturns(thread, waited) ==
    thread \in {"delivered", "failed"} \/ waited >= JoinTimeout

(* variant: the events are sent before the registry is written.            *)
StatementsOfRegistration_NotifyFirst == <<"construct", "notify", "upsert", "return">>

(* The statements of a registration inside its try block, in order.        *)
StatementsOfRegistration == <<"construct", "upsert", "notify", "return">>

(* The statements of run_scheduling past its two guards, in order.         *)
StatementsOfRun == <<"read", "build", "store", "notify", "return">>

Following(statements, pc) ==
    statements[1 + CHOOSE n \in 1..Len(statements) : statements[n] = pc]

StepTouristArgs == {a \in TouristArgs : a.tourist_id = "t1"}
StepGuideArgs == {a \in GuideArgs : a.guide_id = "g1"}

Frame(op, args) ==
    [op |-> op, args |-> args, pc |-> "enter", record |-> None,
     schedule |-> <<>>, outbox |-> <<>>, thread |-> "none", waited |-> 0]

Idle == calls = NoCalls

IsRegistration(op) == op \in {"register_tourist_request", "register_guide_offer"}

(* A tool is called.                                                       *)
Enter ==
    /\ Idle
    /\ \E frame \in {Frame("register_tourist_request", a) : a \in StepTouristArgs}
                 \cup {Frame("register_guide_offer", a) : a \in StepGuideArgs}
                 \cup {Frame(op, None) : op \in {"run_scheduling",
                                                 "get_schedule_status",
                                                 "clear_scheduler_state"}} :
          calls' = <<[frame EXCEPT !.pc =
                        CASE IsRegistration(frame.op) -> "construct"
                          [] frame.op = "run_scheduling" -> "read"
                          [] frame.op = "get_schedule_status" -> "return"
                          [] OTHER -> "reset"]>>
    /\ events' = <<>>
    /\ UNCHANGED <<tourist_requests, guide_offers, assignments, result, previous>>

(* The call returns value.                                                 *)
Leave(value) ==
    /\ result' = value
    /\ previous' = Called
    /\ calls' = NoCalls

(* Parsing of the timestamps and construction of the record; an exception  *)
(* goes to the except branch.                                              *)
Construct ==
    /\ ~Idle
    /\ calls[1].pc = "construct"
    /\ LET a == calls[1].args
           tourist == calls[1].op = "register_tourist_request"
           parses == IF tourist
                     THEN IsoParses(a.availability_start) /\ IsoParses(a.availability_end)
                     ELSE IsoParses(a.available_start) /\ IsoParses(a.available_end)
       IN  IF ~parses
           THEN Leave(ErrorResult(calls[1].op, "Invalid isoformat string"))
           ELSE IF (IF tourist THEN TouristRequestRaises(a) ELSE GuideOfferRaises(a))
           THEN Leave(ErrorResult(calls[1].op, "validation error"))
           ELSE /\ calls' = <<[calls[1] EXCEPT
                      !.pc = Following(StatementsOfRegistration, "construct"),
                      !.record =
                          IF tourist
                          THEN TouristRequest(a.tourist_id,
                                   <<Window(fromisoformat(a.availability_start),
                                            fromisoformat(a.availability_end))>>,
                                   a.preferences, a.budget)
                          ELSE GuideOffer(a.guide_id, a.categories,
                                   Window(fromisoformat(a.available_start),
                                          fromisoformat(a.available_end)),
                                   a.hourly_rate, a.max_group_size),
                      !.outbox =
                          IF tourist
                          THEN <<[type |-> "tourist_request",
                                  tourist_id |-> a.tourist_id,
                                  preferences |-> a.preferences,
                                  budget |-> a.budget],
                                 CommunicationEvent(a.tourist_id, "scheduler",
                                                    "TouristRequest")>>
                          ELSE <<[type |-> "guide_offer",
                                  guide_id |-> a.guide_id,
                                  categories |-> a.categories,
                                  hourly_rate |-> a.hourly_rate,
                                  max_group_size |-> a.max_group_size],
                                 CommunicationEvent(a.guide_id, "scheduler",
                                                    "GuideOffer")>>]>>
                /\ UNCHANGED <<result, previous>>
    /\ UNCHANGED <<tourist_requests, guide_offers, assignments, events>>

(* The three statements of the upsert.                                     *)
Upsert ==
    /\ ~Idle
    /\ calls[1].pc = "upsert"
    /\ IF calls[1].op = "register_tourist_request"
       THEN /\ tourist_requests' = UpsertTourist(tourist_requests, calls[1].record)
            /\ UNCHANGED guide_offers
       ELSE /\ guide_offers' = UpsertGuide(guide_offers, calls[1].record)
            /\ UNCHANGED tourist_requests
    /\ calls' = <<[calls[1] EXCEPT
                     !.pc = Following(StatementsOfRegistration, "upsert")]>>
    /\ UNCHANGED <<assignments, result, previous, events>>

(* The two guards of run_scheduling.                                       *)
ReadRegistries ==
    /\ ~Idle
    /\ calls[1].pc = "read"
    /\ IF NoTourists(tourist_requests)
       THEN Leave([op |-> "run_scheduling", status |-> "no_tourists",
                   assignments |-> <<>>])
       ELSE IF NoGuides(guide_offers)
       THEN Leave([op |-> "run_scheduling", status |-> "no_guides",
                   assignments |-> <<>>])
       ELSE /\ calls' = <<[calls[1] EXCEPT !.pc = Following(StatementsOfRun, "read")]>>
            /\ UNCHANGED <<result, previous>>
    /\ UNCHANGED <<tourist_requests, guide_offers, assignments, events>>

(* assignments = _build_schedule(tourists, guides)                         *)
Build ==
    /\ ~Idle
    /\ calls[1].pc = "build"
    /\ LET schedule == BuildSchedule(tourist_requests, guide_offers)
       IN  calls' = <<[calls[1] EXCEPT
                         !.pc = Following(StatementsOfRun, "build"),
                         !.schedule = schedule,
                         !.outbox = AssignmentEvents(schedule, 1)
                                      \o <<MetricsEvent(tourist_requests,
                                                        guide_offers, schedule)>>]>>
    /\ UNCHANGED <<tourist_requests, guide_offers, assignments, result,
                   previous, events>>

(* _scheduler_state.assignments = assignments                              *)
Store ==
    /\ ~Idle
    /\ calls[1].pc = "store"
    /\ assignments' = NewLedger(assignments, calls[1].schedule)
    /\ guide_offers' = GuidesAfterRun(guide_offers, calls[1].schedule)
    /\ calls' = <<[calls[1] EXCEPT !.pc = Following(StatementsOfRun, "store")]>>
    /\ UNCHANGED <<tourist_requests, result, previous, events>>

(* _scheduler_state = SchedulerState()                                     *)
ResetState ==
    /\ ~Idle
    /\ calls[1].pc = "reset"
    /\ LET fresh == Reset([tourist_requests |-> tourist_requests,
                           guide_offers |-> guide_offers,
                           assignments |-> assignments])
       IN  /\ tourist_requests' = fresh.tourist_requests
           /\ guide_offers' = fresh.guide_offers
           /\ assignments' = fresh.assignments
    /\ calls' = <<[calls[1] EXCEPT !.pc = "return"]>>
    /\ UNCHANGED <<result, previous, events>>

(* send_to_ui_agent up to thread.start(): the next event goes out.         *)
Send ==
    /\ ~Idle
    /\ calls[1].pc = "notify"
    /\ calls[1].thread = "none"
    /\ calls[1].outbox # <<>>
    /\ events' = Append(events, [event |-> Head(calls[1].outbox),
                                 delivery |-> "pending"])
    /\ calls' = <<[calls[1] EXCEPT !.outbox = Tail(@),
                                   !.thread = "running",
                                   !.waited = 0]>>
    /\ UNCHANGED <<tourist_requests, guide_offers, assignments, result, previous>>

(* The sink answers, or the post fails: the thread ends.                   *)
SinkAnswers ==
    /\ ~Idle
    /\ calls[1].thread = "running"
    /\ \E outcome \in {"delivered", "failed"} :
          /\ calls' = <<[calls[1] EXCEPT !.thread = outcome]>>
          /\ events' = [events EXCEPT ![Len(events)].delivery = outcome]
    /\ UNCHANGED <<tourist_requests, guide_offers, assignments, result, previous>>

(* A second passes while the caller waits in join.                         *)
Tick ==
    /\ ~Idle
    /\ calls[1].thread = "running"
    /\ calls[1].waited < JoinTimeout
    /\ calls' = <<[calls[1] EXCEPT !.waited = @ + 1]>>
    /\ UNCHANGED <<tourist_requests, guide_offers, assignments, result,
                   previous, events>>

(* thread.join(timeout=2.0) returns; after the last event the call goes on *)
(* to its next statement.                                                  *)
Join ==
    /\ ~Idle
    /\ calls[1].pc = "notify"
    /\ calls[1].thread # "none"
    /\ JoinReturns(calls[1].thread, calls[1].waited)
    /\ calls' = <<[calls[1] EXCEPT
                     !.thread = "none",
                     !.waited = 0,
                     !.pc = IF calls[1].outbox # <<>> THEN "notify"
                            ELSE IF IsRegistration(calls[1].op)
                            THEN Following(StatementsOfRegistration, "notify")
                            ELSE Following(StatementsOfRun, "notify")]>>
    /\ UNCHANGED <<tourist_requests, guide_offers, assignments, result,
                   previous, events>>

(* The return statement at the end of each tool.                           *)
Return ==
    /\ ~Idle
    /\ calls[1].pc = "return"
    /\ Leave(CASE calls[1].op = "register_tourist_request" ->
                    [op |-> "register_tourist_request",
                     status |-> "registered",
                     tourist_id |-> calls[1].record.tourist_id,
                     request |-> calls[1].record,
                     queue_position |-> QueuePosition(tourist_requests)]
               [] calls[1].op = "register_guide_offer" ->
                    [op |-> "register_guide_offer",
                     status |-> "registered",
                     guide_id |-> calls[1].record.guide_id,
                     offer |-> calls[1].record,
                     total_guides |-> QueuePosition(guide_offers)]
               [] calls[1].op = "run_scheduling" ->
                    CompletedResult(tourist_requests, guide_offers,
                                    calls[1].schedule)
               [] calls[1].op = "get_schedule_status" ->
                    StatusResult(tourist_requests, guide_offers, assignments)
               [] OTHER ->
                    [op |-> "clear_scheduler_state", status |-> "cleared"])
    /\ UNCHANGED <<tourist_requests, guide_offers, assignments, events>>

(* The steps the caller's thread and the clock take by themselves.         *)
Advance ==
    \/ Construct
    \/ Upsert
    \/ ReadRegistries
    \/ Build
    \/ Store
    \/ ResetState
    \/ Send
    \/ Tick
    \/ Join
    \/ Return

NextSteps ==
    \/ Enter
    \/ Advance
    \/ SinkAnswers

SpecSteps == Init /\ [][NextSteps]_vars

(* The caller's thread is scheduled and time passes; nothing is assumed of *)
(* the sink.                                                               *)
SpecLive == Init /\ [][NextSteps]_vars /\ WF_vars(Advance)

(***************************************************************************)
(* The agent clients.  run_guide_agent and run_tourist_agent send their    *)
(* registration message with runner.run_debug inside                       *)
(* "for attempt in range(max_retries)": a call that returns leaves the     *)
(* loop (break), a call that raises is retried after a sleep, and the      *)
(* exception of the last attempt is raised again.  run_tourist_agent then  *)
(* sends its scheduling request, once and outside any try.                 *)
(* calls holds the one client: the loop variable, the registration         *)
(* messages sent so far, whether one of them was answered, and the         *)
(* scheduling requests sent.  What the scheduler does with a message is    *)
(* the business of the agent behind run_debug; its state is left alone.    *)
(***************************************************************************)
max_retries == 30

Clients == {"run_guide_agent", "run_tourist_agent"}

RunDebugOutcomes == {"returned", "raised"}

Client(op) ==
    [op |-> op, pc |-> "attempt", attempt |-> 0, sent |-> 0,
     succeeded |-> FALSE, schedule_requests |-> 0]

(* variant: the last failure is slept over like the others.                *)
RetryAgain_Always(attempt) == TRUE

(* "if attempt < max_retries - 1"                                          *)
RetryAgain(attempt) == attempt < max_retries - 1

(* events = await runner.run_debug(user_messages=message, ...)             *)
SendRegistration ==
    /\ calls # NoCalls
    /\ calls[1].op \in Clients
    /\ calls[1].pc = "attempt"
    /\ calls[1].attempt < max_retries
    /\ \E outcome \in RunDebugOutcomes :
          calls' = <<[calls[1] EXCEPT
                        !.sent = @ + 1,
                        !.succeeded = (outcome = "returned"),
                        !.pc = IF outcome = "returned" THEN "process"
                               ELSE IF RetryAgain(calls[1].attempt) THEN "sleep"
                               ELSE "raised"]>>
    /\ UNCHANGED <<tourist_requests, guide_offers, assignments, result,
                   previous, events>>

(* await asyncio.sleep(retry_delay), and the next turn of the loop.        *)
SleepBeforeRetry ==
    /\ calls # NoCalls
    /\ calls[1].op \in Clients
    /\ calls[1].pc = "sleep"
    /\ calls' = <<[calls[1] EXCEPT !.attempt = @ + 1, !.pc = "attempt"]>>
    /\ UNCHANGED <<tourist_requests, guide_offers, assignments, result,
                   previous, events>>

(* The response is printed; the guide client is done.                      *)
ProcessResponse ==
    /\ calls # NoCalls
    /\ calls[1].op \in Clients
    /\ calls[1].pc = "process"
    /\ calls' = <<[calls[1] EXCEPT
                     !.pc = IF calls[1].op = "run_tourist_agent"
                            THEN "schedule" ELSE "done"]>>
    /\ UNCHANGED <<tourist_requests, guide_offers, assignments, result,
                   previous, events>>

(* schedule_events = await runner.run_debug("Please run the scheduling     *)
(* algorithm ...")                                                         *)
RequestSchedule ==
    /\ calls # NoCalls
    /\ calls[1].op = "run_tourist_agent"
    /\ calls[1].pc = "schedule"
    /\ \E outcome \in RunDebugOutcomes :
          calls' = <<[calls[1] EXCEPT
                        !.schedule_requests = @ + 1,
                        !.pc = IF outcome = "returned" THEN "done"
                               ELSE "raised"]>>
    /\ UNCHANGED <<tourist_requests, guide_offers, assignments, result,
                   previous, events>>

InitClient ==
    /\ tourist_requests = SchedulerState.tourist_requests
    /\ guide_offers = SchedulerState.guide_offers
    /\ assignments = SchedulerState.assignments
    /\ result = NoCall
    /\ previous = NoCall
    /\ events = <<>>
    /\ \E op \in Clients : calls = <<Client(op)>>

NextClient ==
    \/ SendRegistration
    \/ SleepBeforeRetry
    \/ ProcessResponse
    \/ RequestSchedule

SpecClient == InitClient /\ [][NextClient]_vars

(***************************************************************************)
(* Two calls in flight at once, of any two tools.  No function of tools.py *)
(* takes a lock, so the statements of the two calls interleave freely.     *)
(*                                                                         *)
(* run_scheduling binds tourists and guides to the list objects of the     *)
(* state (lines 361-362) and hands those same objects to _build_schedule,  *)
(* which reads them while the other call may write them.  The other tools  *)
(* look _scheduler_state up again in every statement.                      *)
(* clear_scheduler_state rebinds _scheduler_state to a new object: a run   *)
(* that has bound the old lists keeps them (bound = "detached", with the   *)
(* lists in the frame), and its statement of line 379 writes the ledger of *)
(* the new object.                                                         *)
(*                                                                         *)
(* seen is the history of the call: the two registries at every instant    *)
(* since the call began.  at_call is the first of these instants.          *)
(* The notifications write nothing of the scheduler's state and are left   *)
(* to the specifications above: events stays as it is here.                *)
(***************************************************************************)
InFlightTourist(id, start) ==
    TouristRequest(id, <<Window(start, MaxTime)>>, <<"culture">>, MaxMoney)

InFlightGuide(id) ==
    GuideOffer(id, <<"culture">>, Window(0, MaxTime), 1, MaxGroup)

InFlightTouristRegistries ==
    {<<InFlightTourist("t1", 0)>>,
     <<InFlightTourist("t1", 0), InFlightTourist("t2", 1)>>}

InFlightFrame(op, request, tourists, guides) ==
    [op |-> op, pc |-> "enter", request |-> request, existing |-> None,
     bound |-> "unbound", tourists |-> <<>>, guides |-> <<>>,
     guide_capacity |-> InitialCapacity(<<>>), sorted |-> <<>>,
     k |-> 1, i |-> 1, best |-> NoBest, schedule |-> <<>>,
     returned |-> None,
     at_call |-> <<tourists, guides>>, seen |-> {<<tourists, guides>>}]

InFlightFrames(tourists, guides) ==
    {InFlightFrame("register_tourist_request", InFlightTourist("t1", 1),
                   tourists, guides),
     InFlightFrame("register_guide_offer", InFlightGuide("g1"), tourists, guides),
     InFlightFrame("register_guide_offer", InFlightGuide("g2"), tourists, guides),
     InFlightFrame("run_scheduling", None, tourists, guides),
     InFlightFrame("get_schedule_status", None, tourists, guides),
     InFlightFrame("clear_scheduler_state", None, tourists, guides)}

Running(frame) == frame.pc # "done"

(* The history of the calls still running, one instant longer.             *)
Observe(frames, tourists, guides) ==
    [c \in DOMAIN frames |->
        IF Running(frames[c])
        THEN [frames[c] EXCEPT !.seen = @ \cup {<<tourists, guides>>}]
        ELSE frames[c]]

(* The list objects the call reads: its own if the state was rebound.      *)
TouristsOf(frame) ==
    IF frame.bound = "detached" THEN frame.tourists ELSE tourist_requests

GuidesOf(frame) ==
    IF frame.bound = "detached" THEN frame.guides ELSE guide_offers

IdOf(record) ==
    IF "tourist_id" \in DOMAIN record THEN record.tourist_id ELSE record.guide_id

RegistryOf(op) ==
    IF op = "register_tourist_request" THEN tourist_requests ELSE guide_offers

(* The call begins its first statement.                                    *)
Begin(c) ==
    /\ calls[c].pc = "enter"
    /\ calls' = [calls EXCEPT ![c].pc =
                    CASE IsRegistration(calls[c].op) -> "find"
                      [] calls[c].op = "run_scheduling" -> "bind"
                      [] calls[c].op = "get_schedule_status" -> "status"
                      [] OTHER -> "rebind"]
    /\ UNCHANGED <<tourist_requests, guide_offers, assignments, result,
                   previous, events>>

(* existing = next((r for r in registry if r.id == id), None)              *)
FindRecord(c) ==
    /\ calls[c].pc = "find"
    /\ LET registry == RegistryOf(calls[c].op)
           found == {n \in 1..Len(registry) :
                        IdOf(registry[n]) = IdOf(calls[c].request)}
       IN  calls' =
              IF found = {}
              THEN [calls EXCEPT ![c].pc = "append"]
              ELSE [calls EXCEPT
                       ![c].pc = "remove",
                       ![c].existing =
                           registry[CHOOSE n \in found :
                                        \A other \in found : n <= other]]
    /\ UNCHANGED <<tourist_requests, guide_offers, assignments, result,
                   previous, events>>

(* registry.remove(existing); ValueError goes to the except branch.        *)
RemoveRecord(c) ==
    /\ calls[c].pc = "remove"
    /\ LET registry == RegistryOf(calls[c].op)
           present == \E n \in 1..Len(registry) : registry[n] = calls[c].existing
           left == ListRemove(registry, calls[c].existing)
       IN  IF ~present
           THEN /\ calls' = [calls EXCEPT
                               ![c].pc = "done",
                               ![c].returned =
                                   ErrorResult(calls[c].op,
                                               "list.remove(x): x not in list")]
                /\ UNCHANGED <<tourist_requests, guide_offers>>
           ELSE /\ IF calls[c].op = "register_tourist_request"
                   THEN tourist_requests' = left /\ UNCHANGED guide_offers
                   ELSE guide_offers' = left /\ UNCHANGED tourist_requests
                /\ calls' = Observe([calls EXCEPT ![c].pc = "append"],
                                    tourist_requests', guide_offers')
    /\ UNCHANGED <<assignments, result, previous, events>>

(* registry.append(record), and the return with the length of the list.    *)
AppendRecord(c) ==
    /\ calls[c].pc = "append"
    /\ IF calls[c].op = "register_tourist_request"
       THEN /\ tourist_requests' = Append(tourist_requests, calls[c].request)
            /\ UNCHANGED guide_offers
       ELSE /\ guide_offers' = Append(guide_offers, calls[c].request)
            /\ UNCHANGED tourist_requests
    /\ calls' = Observe(
          [calls EXCEPT
              ![c].pc = "done",
              ![c].returned =
                  IF calls[c].op = "register_tourist_request"
                  THEN [op |-> "register_tourist_request",
                        status |-> "registered",
                        tourist_id |-> calls[c].request.tourist_id,
                        request |-> calls[c].request,
                        queue_position |-> QueuePosition(tourist_requests')]
                  ELSE [op |-> "register_guide_offer",
                        status |-> "registered",
                        guide_id |-> calls[c].request.guide_id,
                        offer |-> calls[c].request,
                        total_guides |-> QueuePosition(guide_offers')]],
          tourist_requests', guide_offers')
    /\ UNCHANGED <<assignments, result, previous, events>>

(* tourists = _scheduler_state.tourist_requests; guides = ...guide_offers  *)
BindRegistries(c) ==
    /\ calls[c].pc = "bind"
    /\ calls' = [calls EXCEPT ![c].pc = "check_tourists", ![c].bound = "live"]
    /\ UNCHANGED <<tourist_requests, guide_offers, assignments, result,
                   previous, events>>

(* if not tourists: return ...                                             *)
CheckTourists(c) ==
    /\ calls[c].pc = "check_tourists"
    /\ calls' =
          IF NoTourists(TouristsOf(calls[c]))
          THEN [calls EXCEPT ![c].pc = "done",
                             ![c].returned = [op |-> "run_scheduling",
                                              status |-> "no_tourists",
                                              assignments |-> <<>>]]
          ELSE [calls EXCEPT ![c].pc = "check_guides"]
    /\ UNCHANGED <<tourist_requests, guide_offers, assignments, result,
                   previous, events>>

(* if not guides: return ...                                               *)
CheckGuides(c) ==
    /\ calls[c].pc = "check_guides"
    /\ calls' =
          IF NoGuides(GuidesOf(calls[c]))
          THEN [calls EXCEPT ![c].pc = "done",
                             ![c].returned = [op |-> "run_scheduling",
                                              status |-> "no_guides",
                                              assignments |-> <<>>]]
          ELSE [calls EXCEPT ![c].pc = "capacity"]
    /\ UNCHANGED <<tourist_requests, guide_offers, assignments, result,
                   previous, events>>

(* guide_capacity = {g.guide_id: g.max_group_size for g in guide_offers}   *)
BuildCapacity(c) ==
    /\ calls[c].pc = "capacity"
    /\ calls' = [calls EXCEPT
                    ![c].pc = "sort",
                    ![c].guide_capacity = InitialCapacity(GuidesOf(calls[c]))]
    /\ UNCHANGED <<tourist_requests, guide_offers, assignments, result,
                   previous, events>>

(* sorted_tourists = sorted(tourist_requests, key=...): a new list.        *)
SortTourists(c) ==
    /\ calls[c].pc = "sort"
    /\ calls' = [calls EXCEPT
                    ![c].pc = "tourist",
                    ![c].sorted = SortedTourists(TouristsOf(calls[c])),
                    ![c].k = 1]
    /\ UNCHANGED <<tourist_requests, guide_offers, assignments, result,
                   previous, events>>

(* for tourist in sorted_tourists: the head of one turn of the outer loop. *)
NextTourist(c) ==
    /\ calls[c].pc = "tourist"
    /\ calls' =
          IF calls[c].k > Len(calls[c].sorted)
          THEN [calls EXCEPT ![c].pc = "store"]
          ELSE IF Len(calls[c].sorted[calls[c].k].availability) = 0
          THEN [calls EXCEPT ![c].k = @ + 1]
          ELSE [calls EXCEPT ![c].pc = "guide", ![c].i = 1, ![c].best = NoBest]
    /\ UNCHANGED <<tourist_requests, guide_offers, assignments, result,
                   previous, events>>

(* for guide in guide_offers: one turn of the inner loop, on the list as   *)
(* it is now; guide_capacity[guide.guide_id] raises KeyError for a guide   *)
(* the dict was built without.  After the last guide, the tail of the      *)
(* outer turn.                                                             *)
NextGuide(c) ==
    /\ calls[c].pc = "guide"
    /\ LET frame == calls[c]
           guides == GuidesOf(frame)
           tourist == frame.sorted[frame.k]
       IN  calls' =
              IF frame.i > Len(guides)
              THEN IF frame.best.guide # None /\ frame.best.overlap # None
                   THEN [calls EXCEPT
                            ![c].pc = "tourist",
                            ![c].k = @ + 1,
                            ![c].schedule =
                                Append(@, MakeAssignment(tourist, frame.best)),
                            ![c].guide_capacity =
                                TakeSeat(@, frame.best.guide)]
                   ELSE [calls EXCEPT ![c].pc = "tourist", ![c].k = @ + 1]
              ELSE IF guides[frame.i].guide_id \notin DOMAIN frame.guide_capacity
              THEN [calls EXCEPT
                       ![c].pc = "done",
                       ![c].returned = ErrorResult("run_scheduling", "KeyError")]
              ELSE [calls EXCEPT
                       ![c].i = @ + 1,
                       ![c].best = ScanGuides(tourist, <<guides[frame.i]>>,
                                              frame.guide_capacity, 1,
                                              frame.best)]
    /\ UNCHANGED <<tourist_requests, guide_offers, assignments, result,
                   previous, events>>

(* _scheduler_state.assignments = assignments: the ledger of the state     *)
(* object that is current now.                                             *)
StoreLedger(c) ==
    /\ calls[c].pc = "store"
    /\ assignments' = NewLedger(assignments, calls[c].schedule)
    /\ calls' = [calls EXCEPT ![c].pc = "return"]
    /\ UNCHANGED <<tourist_requests, guide_offers, result, previous, events>>

ReturnCompleted(c) ==
    /\ calls[c].pc = "return"
    /\ calls' = [calls EXCEPT
                    ![c].pc = "done",
                    ![c].returned =
                        CompletedResult(TouristsOf(calls[c]), GuidesOf(calls[c]),
                                        calls[c].schedule)]
    /\ UNCHANGED <<tourist_requests, guide_offers, assignments, result,
                   previous, events>>

(* get_schedule_status, from state = _scheduler_state to its return.       *)
ReadStatus(c) ==
    /\ calls[c].pc = "status"
    /\ calls' = [calls EXCEPT
                    ![c].pc = "done",
                    ![c].returned = StatusResult(tourist_requests, guide_offers,
                                                 assignments)]
    /\ UNCHANGED <<tourist_requests, guide_offers, assignments, result,
                   previous, events>>

(* _scheduler_state = SchedulerState(): the calls that hold the lists of   *)
(* the old object keep them.                                               *)
Rebind(c) ==
    /\ calls[c].pc = "rebind"
    /\ LET fresh == Reset([tourist_requests |-> tourist_requests,
                           guide_offers |-> guide_offers,
                           assignments |-> assignments])
           kept == [d \in DOMAIN calls |->
                       IF calls[d].bound = "live"
                       THEN [calls[d] EXCEPT !.bound = "detached",
                                             !.tourists = tourist_requests,
                                             !.guides = guide_offers]
                       ELSE calls[d]]
       IN  /\ tourist_requests' = fresh.tourist_requests
           /\ guide_offers' = fresh.guide_offers
           /\ assignments' = fresh.assignments
           /\ calls' = Observe(
                 [kept EXCEPT ![c].pc = "done",
                              ![c].returned = [op |-> "clear_scheduler_state",
                                               status |-> "cleared"]],
                 tourist_requests', guide_offers')
    /\ UNCHANGED <<result, previous, events>>

InitInFlight ==
    /\ tourist_requests \in InFlightTouristRegistries
    /\ guide_offers = <<InFlightGuide("g1")>>
    /\ assignments = SchedulerState.assignments
    /\ result = NoCall
    /\ previous = NoCall
    /\ events = <<>>
    /\ \E first, second \in InFlightFrames(tourist_requests, guide_offers) :
          calls = <<first, second>>

NextInFlight ==
    \E c \in Callers :
        \/ Begin(c)
        \/ FindRecord(c)
        \/ RemoveRecord(c)
        \/ AppendRecord(c)
        \/ BindRegistries(c)
        \/ CheckTourists(c)
        \/ CheckGuides(c)
        \/ BuildCapacity(c)
        \/ SortTourists(c)
        \/ NextTourist(c)
        \/ NextGuide(c)
        \/ StoreLedger(c)
        \/ ReturnCompleted(c)
        \/ ReadStatus(c)
        \/ Rebind(c)

SpecInFlight == InitInFlight /\ [][NextInFlight]_vars

(***************************************************************************)
(* Vocabulary of the properties.                                           *)
(***************************************************************************)
Completed == result.op = "run_scheduling" /\ result.status = "completed"

SeatsTaken(schedule, id) ==
    Cardinality({k \in 1..Len(schedule) : schedule[k].guide_id = id})

Contains(outer, inner) == outer.start <= inner.start /\ inner.end <= outer.end

Intersects(w1, w2) ==
    (IF w1.start >= w2.start THEN w1.start ELSE w2.start)
        < (IF w1.end <= w2.end THEN w1.end ELSE w2.end)

Affordable(t, g) == g.hourly_rate <= t.budget

Reachable(t, g) ==
    \E k \in 1..Len(t.availability) : Intersects(t.availability[k], g.available_window)

Served(schedule, id) == \E k \in 1..Len(schedule) : schedule[k].tourist_id = id

(***************************************************************************)
(* C1  Capacity invariant: in the output of a completed run no guide_id    *)
(* occurs in more assignments than the max_group_size of that guide in     *)
(* the registry the run was executed on.                                   *)
(***************************************************************************)
CapacityInvariant ==
    Completed =>
        \A i \in 1..Len(guide_offers) :
            SeatsTaken(result.assignments, guide_offers[i].guide_id)
                <= guide_offers[i].max_group_size

(* A run in which the only guide has one seat, two tourists pass the       *)
(* budget and overlap tests for it, and one of them got the seat.          *)
CapacityWitness ==
    /\ Completed
    /\ Len(guide_offers) = 1
    /\ guide_offers[1].max_group_size = 1
    /\ Len(tourist_requests) = 2
    /\ \A i \in 1..2 : /\ Affordable(tourist_requests[i], guide_offers[1])
                       /\ Reachable(tourist_requests[i], guide_offers[1])
    /\ Len(result.assignments) = 1

(***************************************************************************)
(* C2  Overlap soundness: every assignment of a completed run has a        *)
(* time_window of strictly positive duration that lies within an           *)
(* availability window of its tourist and within the available_window of   *)
(* its guide, as registered when the run executed.                         *)
(***************************************************************************)
OverlapSoundness ==
    Completed =>
        \A k \in 1..Len(result.assignments) :
            LET a == result.assignments[k]
            IN  /\ a.time_window.start < a.time_window.end
                /\ \E i \in 1..Len(tourist_requests) :
                      /\ tourist_requests[i].tourist_id = a.tourist_id
                      /\ \E n \in 1..Len(tourist_requests[i].availability) :
                            Contains(tourist_requests[i].availability[n], a.time_window)
                /\ \E j \in 1..Len(guide_offers) :
                      /\ guide_offers[j].guide_id = a.guide_id
                      /\ Contains(guide_offers[j].available_window, a.time_window)

(* A run with an assignment whose window is cut short by the guide's       *)
(* window, next to a tourist whose empty window got no assignment.         *)
OverlapWitness ==
    /\ Completed
    /\ \E k \in 1..Len(result.assignments) :
          \E i \in 1..Len(tourist_requests) :
              /\ tourist_requests[i].tourist_id = result.assignments[k].tourist_id
              /\ tourist_requests[i].availability[1] # result.assignments[k].time_window
    /\ \E i \in 1..Len(tourist_requests) :
          /\ tourist_requests[i].availability[1].start
                >= tourist_requests[i].availability[1].end
          /\ ~Served(result.assignments, tourist_requests[i].tourist_id)

(***************************************************************************)
(* C5  Budget gate: no assignment of a completed run pairs a tourist with  *)
(* a guide whose hourly_rate exceeds the tourist's budget.                 *)
(***************************************************************************)
BudgetGate ==
    Completed =>
        \A k \in 1..Len(result.assignments) :
            \A i \in 1..Len(tourist_requests), j \in 1..Len(guide_offers) :
                (/\ tourist_requests[i].tourist_id = result.assignments[k].tourist_id
                 /\ guide_offers[j].guide_id = result.assignments[k].guide_id)
                    => guide_offers[j].hourly_rate <= tourist_requests[i].budget

(* A run that left a tourist unassigned although a guide matching its      *)
(* preferences had a free seat and an overlapping window, the rate being   *)
(* the only obstacle; and that produced an assignment whose total cost is  *)
(* above its tourist's budget, the rate being within it.                   *)
BudgetWitness ==
    /\ Completed
    /\ \E i \in 1..Len(tourist_requests), j \in 1..Len(guide_offers) :
          /\ ~Served(result.assignments, tourist_requests[i].tourist_id)
          /\ guide_offers[j].hourly_rate > tourist_requests[i].budget
          /\ Reachable(tourist_requests[i], guide_offers[j])
          /\ SeatsTaken(result.assignments, guide_offers[j].guide_id)
                < guide_offers[j].max_group_size
          /\ \E n \in 1..Len(guide_offers[j].categories) :
                \E m \in 1..Len(tourist_requests[i].preferences) :
                    guide_offers[j].categories[n] = tourist_requests[i].preferences[m]
    /\ \E k \in 1..Len(result.assignments) :
          \E i \in 1..Len(tourist_requests) :
              /\ tourist_requests[i].tourist_id = result.assignments[k].tourist_id
              /\ result.assignments[k].total_cost
                    > tourist_requests[i].budget * TicksPerHour

(***************************************************************************)
(* C6  Scarce capacity goes to the earlier start: when the only guide has  *)
(* max_group_size 1 and two tourists both pass the budget and overlap      *)
(* tests for it, the run assigns exactly the tourist whose first window    *)
(* starts earlier, whichever of the two was registered first.              *)
(***************************************************************************)
EarlierStartServed ==
    (/\ Completed
     /\ Len(guide_offers) = 1
     /\ guide_offers[1].max_group_size = 1
     /\ Len(tourist_requests) = 2
     /\ \A i \in 1..2 : /\ Affordable(tourist_requests[i], guide_offers[1])
                        /\ Reachable(tourist_requests[i], guide_offers[1]))
        => \A i, j \in 1..2 :
              tourist_requests[i].availability[1].start
                    < tourist_requests[j].availability[1].start
                 => /\ Len(result.assignments) = 1
                    /\ result.assignments[1].tourist_id = tourist_requests[i].tourist_id
                    /\ ~Served(result.assignments, tourist_requests[j].tourist_id)

(* Such a run where the tourist with the earlier start was registered      *)
(* second and the two availability windows overlap.                        *)
EarlierStartWitness ==
    /\ Completed
    /\ Len(guide_offers) = 1
    /\ guide_offers[1].max_group_size = 1
    /\ Len(tourist_requests) = 2
    /\ \A i \in 1..2 : /\ Affordable(tourist_requests[i], guide_offers[1])
                       /\ Reachable(tourist_requests[i], guide_offers[1])
    /\ tourist_requests[2].availability[1].start
          < tourist_requests[1].availability[1].start
    /\ Intersects(tourist_requests[1].availability[1], tourist_requests[2].availability[1])
    /\ Len(result.assignments) = 1
    /\ result.assignments[1].tourist_id = tourist_requests[2].tourist_id

(***************************************************************************)
(* C3  Upsert idempotence: a registration of an identity the registry      *)
(* already holds leaves the registry size unchanged and leaves exactly     *)
(* one record of that identity, equal to the record just registered.       *)
(***************************************************************************)
UpsertIdempotence ==
    [][/\ (/\ result'.op = "register_tourist_request"
           /\ result'.status = "registered"
           /\ \E i \in 1..Len(tourist_requests) :
                 tourist_requests[i].tourist_id = result'.tourist_id)
          => /\ Len(tourist_requests') = Len(tourist_requests)
             /\ \A i \in 1..Len(tourist_requests') :
                   tourist_requests'[i].tourist_id = result'.tourist_id
                      => tourist_requests'[i] = result'.request
             /\ Cardinality({i \in 1..Len(tourist_requests') :
                   tourist_requests'[i].tourist_id = result'.tourist_id}) = 1
       /\ (/\ result'.op = "register_guide_offer"
           /\ result'.status = "registered"
           /\ \E i \in 1..Len(guide_offers) :
                 guide_offers[i].guide_id = result'.guide_id)
          => /\ Len(guide_offers') = Len(guide_offers)
             /\ \A i \in 1..Len(guide_offers') :
                   guide_offers'[i].guide_id = result'.guide_id
                      => guide_offers'[i] = result'.offer
             /\ Cardinality({i \in 1..Len(guide_offers') :
                   guide_offers'[i].guide_id = result'.guide_id}) = 1
      ]_vars

(* Two successful tourist registrations in a row after which the registry  *)
(* holds one record: the second one registered the identity again.         *)
UpsertWitness ==
    /\ previous = [op |-> "register_tourist_request", status |-> "registered"]
    /\ result.op = "register_tourist_request"
    /\ result.status = "registered"
    /\ Len(tourist_requests) = 1
    /\ result.queue_position = 1

(***************************************************************************)
(* C4  Identity uniqueness: in every state reached by calls made one at a  *)
(* time, no two tourist records share a tourist_id and no two guide        *)
(* records share a guide_id.                                               *)
(***************************************************************************)
IdentityUniqueness ==
    /\ \A i, j \in 1..Len(tourist_requests) :
          tourist_requests[i].tourist_id = tourist_requests[j].tourist_id => i = j
    /\ \A i, j \in 1..Len(guide_offers) :
          guide_offers[i].guide_id = guide_offers[j].guide_id => i = j

(* Two successful guide registrations in a row that end with one guide,    *)
(* beside two registered tourists and a ledger of an earlier run.          *)
UniquenessWitness ==
    /\ previous = [op |-> "register_guide_offer", status |-> "registered"]
    /\ result.op = "register_guide_offer"
    /\ result.status = "registered"
    /\ Len(guide_offers) = 1
    /\ Len(tourist_requests) = 2
    /\ Len(assignments) > 0

(***************************************************************************)
(* C7  Determinism: a run_scheduling that directly follows a completed     *)
(* run_scheduling returns the same status and the same assignment          *)
(* sequence and stores the same ledger.                                    *)
(***************************************************************************)
Determinism ==
    [][(Completed /\ result'.op = "run_scheduling")
          => /\ result'.status = "completed"
             /\ result'.assignments = result.assignments
             /\ assignments' = assignments
      ]_vars

(* The second of two completed runs in a row, with two assignments.        *)
DeterminismWitness ==
    /\ Completed
    /\ previous = [op |-> "run_scheduling", status |-> "completed"]
    /\ Len(result.assignments) = 2

(***************************************************************************)
(* C8  Empty-registry handling: a run on an empty tourist registry         *)
(* returns status "no_tourists", a run on a non-empty tourist registry     *)
(* and an empty guide registry returns "no_guides"; both return an empty   *)
(* assignment list and leave the ledger as it was.                         *)
(***************************************************************************)
EmptyRegistryHandling ==
    [][result'.op = "run_scheduling"
          => /\ Len(tourist_requests) = 0
                => /\ result'.status = "no_tourists"
                   /\ result'.assignments = <<>>
                   /\ assignments' = assignments
             /\ (Len(tourist_requests) > 0 /\ Len(guide_offers) = 0)
                => /\ result'.status = "no_guides"
                   /\ result'.assignments = <<>>
                   /\ assignments' = assignments
      ]_vars

(* A run that found two registered tourists and no guide.                  *)
EmptyRegistryWitness ==
    /\ result.op = "run_scheduling"
    /\ result.status = "no_guides"
    /\ result.assignments = <<>>
    /\ Len(tourist_requests) = 2
    /\ Len(guide_offers) = 0

(***************************************************************************)
(* C9  Reset: clear_scheduler_state leaves both registries and the ledger  *)
(* empty, and a get_schedule_status that directly follows it reports       *)
(* total_tourists = 0, total_guides = 0 and total_assignments = 0.         *)
(***************************************************************************)
ResetThenStatus ==
    /\ result.op = "clear_scheduler_state"
          => /\ tourist_requests = <<>>
             /\ guide_offers = <<>>
             /\ assignments = <<>>
    /\ (result.op = "get_schedule_status" /\ previous.op = "clear_scheduler_state")
          => /\ result.total_tourists = 0
             /\ result.total_guides = 0
             /\ result.total_assignments = 0

(* The status call right after a reset.                                    *)
ResetWitness ==
    /\ result.op = "get_schedule_status"
    /\ previous = [op |-> "clear_scheduler_state", status |-> "cleared"]
    /\ result.total_tourists = 0
    /\ result.total_guides = 0
    /\ result.total_assignments = 0

(***************************************************************************)
(* C10  Ledger replacement: after a completed run the ledger is exactly    *)
(* the sequence that run produced from the registries, and it is no        *)
(* longer than the tourist registry.                                       *)
(***************************************************************************)
LedgerReplacement ==
    Completed =>
        /\ assignments = BuildSchedule(tourist_requests, guide_offers)
        /\ assignments = result.assignments
        /\ Len(assignments) <= Len(tourist_requests)

(* The second of two completed runs in a row, whose ledger holds one       *)
(* assignment for each of the two tourists.                                *)
LedgerWitness ==
    /\ Completed
    /\ previous = [op |-> "run_scheduling", status |-> "completed"]
    /\ Len(tourist_requests) = 2
    /\ Len(assignments) = 2
    /\ result.num_assignments = 2

(***************************************************************************)
(* C11  Cost formula: every assignment of a completed run has total_cost   *)
(* = hourly_rate of its guide x hours of its time_window, fractions of an  *)
(* hour included (both sides are written multiplied by TicksPerHour); the  *)
(* worked example yields exactly one assignment, t1 with g1, 10:00-14:00,  *)
(* cost 200.                                                               *)
(***************************************************************************)
CostFormula ==
    Completed =>
        /\ \A k \in 1..Len(result.assignments) :
              \A j \in 1..Len(guide_offers) :
                  guide_offers[j].guide_id = result.assignments[k].guide_id
                     => result.assignments[k].total_cost
                           = guide_offers[j].hourly_rate
                               * (result.assignments[k].time_window.end
                                    - result.assignments[k].time_window.start)
        /\ (tourist_requests = ExampleTourists /\ guide_offers = ExampleGuides)
              => result.assignments =
                    <<[tourist_id |-> "t1", guide_id |-> "g1",
                       time_window |-> [start |-> 10 * TicksPerHour,
                                        end |-> 14 * TicksPerHour],
                       categories |-> <<"culture", "history", "food">>,
                       total_cost |-> 200 * TicksPerHour]>>

(* A run with an assignment that lasts a fraction of an hour, shorter      *)
(* than the window of its guide, at a cost that is not a whole number.     *)
CostWitness ==
    /\ Completed
    /\ \E k \in 1..Len(result.assignments) :
          LET a == result.assignments[k]
          IN  /\ (a.time_window.end - a.time_window.start) % TicksPerHour # 0
              /\ a.total_cost % TicksPerHour # 0
              /\ \E j \in 1..Len(guide_offers) :
                    /\ guide_offers[j].guide_id = a.guide_id
                    /\ guide_offers[j].available_window # a.time_window

(***************************************************************************)
(* C12  Tourist validation: register_tourist_request with a budget below 0 *)
(* or with availability_start >= availability_end returns status "error"   *)
(* and does not add or replace a record of the tourist registry.  Stated   *)
(* on the calls: a call that returns "registered" had a budget of at least *)
(* 0 and a window with start < end, and a call that returns "error" leaves *)
(* the tourist registry as it was.                                         *)
(* The code rejects the negative budget but registers the empty window.    *)
(***************************************************************************)
TouristValidation ==
    [][result'.op = "register_tourist_request" =>
          /\ result'.status \in {"registered", "error"}
          /\ result'.status = "registered" =>
                /\ result'.request.budget >= 0
                /\ \A w \in 1..Len(result'.request.availability) :
                      result'.request.availability[w].start
                          < result'.request.availability[w].end
                /\ \E i \in 1..Len(tourist_requests') :
                      tourist_requests'[i] = result'.request
          /\ result'.status = "error" => tourist_requests' = tourist_requests]_vars

(***************************************************************************)
(* C13  Guide validation: register_guide_offer with hourly_rate < 0 or     *)
(* max_group_size < 1 returns status "error" and leaves the guide registry *)
(* as it was, so every record of the guide registry has a rate of at least *)
(* 0 and a capacity of at least 1.                                         *)
(***************************************************************************)
GuideValidation ==
    [][/\ \A i \in 1..Len(guide_offers') :
              /\ guide_offers'[i].hourly_rate >= 0
              /\ guide_offers'[i].max_group_size >= 1
       /\ result'.op = "register_guide_offer" =>
              /\ result'.status \in {"registered", "error"}
              /\ result'.status = "registered" =>
                    /\ result'.offer.hourly_rate >= 0
                    /\ result'.offer.max_group_size >= 1
              /\ result'.status = "error" => guide_offers' = guide_offers]_vars

(* A guide offer was rejected by the validators while the registry held a  *)
(* record of the same guide and a record of another one.                   *)
GuideValidationWitness ==
    /\ result.op = "register_guide_offer"
    /\ result.status = "error"
    /\ result.message = "validation error"
    /\ Len(guide_offers) = 2
    /\ \E i \in 1..Len(guide_offers) : guide_offers[i].guide_id = "g1"

(***************************************************************************)
(* C14  Failures are values and leave state untouched: every call returns  *)
(* a result with one of the known status tags, none raises to its caller,  *)
(* and when a registration or a run returns "error" both registries and    *)
(* the ledger are as they were before the call.                            *)
(***************************************************************************)
StatusTags ==
    {"registered", "completed", "no_tourists", "no_guides", "ok", "cleared",
     "error"}

QueuePositionContract ==
    [][/\ (result'.op = "register_tourist_request" /\ result'.status = "registered") =>
              /\ result'.queue_position = Len(tourist_requests')
              /\ result'.queue_position =
                    IF \E i \in 1..Len(tourist_requests) :
                           tourist_requests[i].tourist_id = result'.tourist_id
                    THEN Len(tourist_requests)
                    ELSE Len(tourist_requests) + 1
       /\ (result'.op = "register_guide_offer" /\ result'.status = "registered") =>
              /\ result'.total_guides = Len(guide_offers')
              /\ result'.total_guides =
                    IF \E i \in 1..Len(guide_offers) :
                           guide_offers[i].guide_id = result'.guide_id
                    THEN Len(guide_offers)
                    ELSE Len(guide_offers) + 1]_vars

(* A tourist was registered again: the call before registered a tourist    *)
(* too, and the position returned is still 1.  And a second guide joined a *)
(* registry of one.                                                        *)
QueuePositionWitness ==
    /\ result.op = "register_tourist_request"
    /\ result.status = "registered"
    /\ previous = [op |-> "register_tourist_request", status |-> "registered"]
    /\ result.queue_position = 1
    /\ Len(guide_offers) = 2

(***************************************************************************)
(* C16  Run result carries metrics, as claimed: when both registries are   *)
(* non-empty the value returned by run_scheduling contains the assignment  *)
(* list and the run metrics (total tourists, total guides, total           *)
(* assignments, distinct tourists served, guide utilization, mean cost).   *)
(* The returned value has no such fields.                                  *)
(***************************************************************************)
MetricNames ==
    {"total_tourists", "total_guides", "total_assignments",
     "satisfied_tourists", "guide_utilization", "avg_assignment_cost"}

RunResultCarriesMetrics ==
    Completed =>
        /\ result.assignments = assignments
        /\ MetricNames \subseteq DOMAIN result

ServedTourists == {assignments[k].tourist_id : k \in 1..Len(assignments)}
UsedGuides == {assignments[k].guide_id : k \in 1..Len(assignments)}

RECURSIVE CostOfFirst(_)
CostOfFirst(n) ==
    IF n = 0 THEN 0 ELSE CostOfFirst(n - 1) + assignments[n].total_cost

(***************************************************************************)
(* C16, amended: the value returned by a completed run carries the new     *)
(* assignment list, its length and one proposal per assignment, and none   *)
(* of the derived metrics.  The metrics leave the run as its last event to *)
(* the notification sink: total tourists, total guides, total assignments, *)
(* distinct tourists served, distinct guides used / total guides, and the  *)
(* sum of the costs / the number of assignments (0 without assignments).   *)
(***************************************************************************)
RunMetricsGoToSink ==
    Completed =>
        /\ result.assignments = assignments
        /\ result.num_assignments = Len(assignments)
        /\ Len(result.proposals) = Len(assignments)
        /\ MetricNames \cap DOMAIN result = {}
        /\ Len(events) = 2 * Len(assignments) + 1
        /\ LET metrics == events[Len(events)].event
           IN  /\ metrics.type = "metrics"
               /\ metrics.total_tourists = Len(tourist_requests)
               /\ metrics.total_guides = Len(guide_offers)
               /\ metrics.total_assignments = Len(assignments)
               /\ metrics.satisfied_tourists = Cardinality(ServedTourists)
               /\ metrics.guide_utilization.num = Cardinality(UsedGuides)
               /\ metrics.guide_utilization.den = Len(guide_offers)
               /\ metrics.avg_assignment_cost.num = CostOfFirst(Len(assignments))
               /\ metrics.avg_assignment_cost.den
                     = IF Len(assignments) = 0 THEN 1 ELSE Len(assignments)

(* A run gave one of two guides both assignments.                          *)
RunMetricsWitness ==
    /\ Completed
    /\ Len(assignments) = 2
    /\ Cardinality(UsedGuides) = 1
    /\ Len(guide_offers) = 2

(***************************************************************************)
(* C17  get_schedule_status is read-only: it leaves both registries and    *)
(* the ledger unchanged and does not run the matching again; it reports    *)
(* tourist satisfaction = distinct tourist_ids of the ledger / registered  *)
(* tourists x 100 and guide utilization = distinct guide_ids of the ledger *)
(* / registered guides x 100, to the nearest tenth, and 0 for an empty     *)
(* registry.  Percentages are in tenths of a percent.                      *)
(***************************************************************************)
NearestTenth(pct, num, den) ==
    /\ 2 * (pct * den - 1000 * num) <= den
    /\ 2 * (1000 * num - pct * den) <= den

StatusReadOnly ==
    [][result'.op = "get_schedule_status" =>
          /\ tourist_requests' = tourist_requests
          /\ guide_offers' = guide_offers
          /\ assignments' = assignments
          /\ IF Len(tourist_requests) = 0
             THEN result'.tourist_satisfaction_pct = 0
             ELSE NearestTenth(result'.tourist_satisfaction_pct,
                               Cardinality(ServedTourists), Len(tourist_requests))
          /\ IF Len(guide_offers) = 0
             THEN result'.guide_utilization_pct = 0
             ELSE NearestTenth(result'.guide_utilization_pct,
                               Cardinality(UsedGuides), Len(guide_offers))]_vars

(* The status of a ledger that a run on the present registries would not   *)
(* produce: two assignments on one of two guides, reported as 50.0 %.      *)
StatusWitness ==
    /\ result.op = "get_schedule_status"
    /\ Len(assignments) = 2
    /\ result.guide_utilization_pct = 500
    /\ result.tourist_satisfaction_pct = 1000
    /\ assignments # BuildSchedule(tourist_requests, guide_offers)

BothReturned == \A c \in Callers : calls[c].pc = "done"

RecordsOf(id) == {i \in 1..Len(tourist_requests) : tourist_requests[i].tourist_id = id}

ConcurrentUpsertSerialized ==
    (/\ calls # NoCalls
     /\ BothReturned
     /\ calls[1].request.tourist_id = calls[2].request.tourist_id)
        => /\ Cardinality(RecordsOf(calls[1].request.tourist_id)) = 1
           /\ \A i \in RecordsOf(calls[1].request.tourist_id) :
                  tourist_requests[i] \in {calls[1].request, calls[2].request}

(***************************************************************************)
(* C20  No lost registration: when two callers concurrently register       *)
(* records with different identities, then in every interleaving both      *)
(* records are in the registry once both calls have returned "registered", *)
(* and at no moment has a record registered before the calls under a third *)
(* identity been dropped.                                                  *)
(***************************************************************************)
NoLostRegistration ==
    (/\ calls # NoCalls
     /\ calls[1].request.tourist_id # calls[2].request.tourist_id)
        => /\ \A k \in 1..Len(calls[1].registry_at_call) :
                  calls[1].registry_at_call[k].tourist_id
                        \notin {calls[c].request.tourist_id : c \in Callers}
                     => \E i \in 1..Len(tourist_requests) :
                           tourist_requests[i] = calls[1].registry_at_call[k]
           /\ (\A c \in Callers : /\ calls[c].pc = "done"
                                   /\ calls[c].returned.status = "registered")
                 => \A c \in Callers :
                       \E i \in 1..Len(tourist_requests) :
                           tourist_requests[i] = calls[c].request

(* Both calls returned "registered" on a registry that held a record of a  *)
(* third tourist, and they did interleave: the first caller's scan missed  *)
(* its old record when the second removed its own, so the old record of    *)
(* the first is still there beside the new one.                            *)
NoLostRegistrationWitness ==
    /\ calls # NoCalls
    /\ calls[1].request.tourist_id # calls[2].request.tourist_id
    /\ \A c \in Callers : /\ calls[c].pc = "done"
                           /\ calls[c].returned.status = "registered"
    /\ \E k \in 1..Len(calls[1].registry_at_call) :
          calls[1].registry_at_call[k].tourist_id = "t0"
    /\ Cardinality(RecordsOf(calls[1].request.tourist_id)) = 2

(***************************************************************************)
(* Vocabulary of the properties of _build_schedule: the arguments are      *)
(* tourist_requests and guide_offers, the value returned is                *)
(* result.assignments.  Identities are distinct in both arguments.         *)
(***************************************************************************)
Returned == result.op = "_build_schedule"

TouristAt(id) == CHOOSE i \in 1..Len(tourist_requests) : tourist_requests[i].tourist_id = id

GuideAt(id) == CHOOSE j \in 1..Len(guide_offers) : guide_offers[j].guide_id = id

FirstStart(i) == tourist_requests[i].availability[1].start

(* Tourist i has its turn before tourist j.                                *)
TurnBefore(i, j) ==
    \/ FirstStart(i) < FirstStart(j)
    \/ FirstStart(i) = FirstStart(j) /\ i < j

(* The seats guide j has left when tourist i has its turn.                 *)
SeatsLeftAtTurn(j, i) ==
    guide_offers[j].max_group_size
        - Cardinality({k \in 1..Len(result.assignments) :
                          /\ result.assignments[k].guide_id = guide_offers[j].guide_id
                          /\ TurnBefore(TouristAt(result.assignments[k].tourist_id), i)})

EligibleAtTurn(j, i) ==
    /\ SeatsLeftAtTurn(j, i) > 0
    /\ Affordable(tourist_requests[i], guide_offers[j])
    /\ Reachable(tourist_requests[i], guide_offers[j])

SharedLabels(i, j) ==
    Cardinality({p \in 1..Len(tourist_requests[i].preferences) :
                    \E c \in 1..Len(guide_offers[j].categories) :
                        guide_offers[j].categories[c] = tourist_requests[i].preferences[p]})

(***************************************************************************)
(* C25  Service order: tourists are processed in ascending order of the    *)
(* start of their first availability window, tourists with equal starts in *)
(* the order of the list; tourists without a window are skipped without    *)
(* error; the returned sequence lists the assigned tourists in that order. *)
(***************************************************************************)
ServiceOrder ==
    Returned =>
        /\ \A k \in 1..Len(result.assignments) :
              \E i \in 1..Len(tourist_requests) :
                  /\ tourist_requests[i].tourist_id = result.assignments[k].tourist_id
                  /\ Len(tourist_requests[i].availability) > 0
        /\ \A k, l \in 1..Len(result.assignments) :
              k < l => TurnBefore(TouristAt(result.assignments[k].tourist_id),
                                  TouristAt(result.assignments[l].tourist_id))

(* Three tourists: the second starts earlier than the first and is listed  *)
(* first in the output, the third has no window and is skipped, and the    *)
(* other two are both assigned.                                            *)
ServiceOrderWitness ==
    /\ Returned
    /\ Len(tourist_requests) = 3
    /\ Len(tourist_requests[3].availability) = 0
    /\ Len(tourist_requests[1].availability) > 0
    /\ Len(tourist_requests[2].availability) > 0
    /\ FirstStart(2) < FirstStart(1)
    /\ Len(result.assignments) = 2
    /\ result.assignments[1].tourist_id = tourist_requests[2].tourist_id

(***************************************************************************)
(* C26  Best-guide selection: the guide of an assignment has the maximum   *)
(* preference score among the guides that at the tourist's turn have a     *)
(* seat left and pass the budget and overlap tests, and among the guides   *)
(* with that score it is the earliest of the guide list.                   *)
(***************************************************************************)
BestGuideSelection ==
    Returned =>
        \A k \in 1..Len(result.assignments) :
            LET i == TouristAt(result.assignments[k].tourist_id)
                j == GuideAt(result.assignments[k].guide_id)
            IN  /\ EligibleAtTurn(j, i)
                /\ \A other \in 1..Len(guide_offers) :
                      EligibleAtTurn(other, i) =>
                          \/ SharedLabels(i, other) < SharedLabels(i, j)
                          \/ SharedLabels(i, other) = SharedLabels(i, j) /\ j <= other

(* Two guides were eligible with the same positive score and the first got *)
(* the tourist; for another tourist the second guide scored higher and got *)
(* it.                                                                     *)
BestGuideWitness ==
    /\ Returned
    /\ Len(guide_offers) = 2
    /\ \E k \in 1..Len(result.assignments) :
          LET i == TouristAt(result.assignments[k].tourist_id)
          IN  /\ EligibleAtTurn(1, i) /\ EligibleAtTurn(2, i)
              /\ SharedLabels(i, 1) = SharedLabels(i, 2)
              /\ SharedLabels(i, 1) > 0
              /\ result.assignments[k].guide_id = guide_offers[1].guide_id
    /\ \E k \in 1..Len(result.assignments) :
          LET i == TouristAt(result.assignments[k].tourist_id)
          IN  /\ EligibleAtTurn(1, i) /\ EligibleAtTurn(2, i)
              /\ SharedLabels(i, 1) < SharedLabels(i, 2)
              /\ result.assignments[k].guide_id = guide_offers[2].guide_id

(***************************************************************************)
(* C27  Assigned if and only if eligible: a tourist with at least one      *)
(* window gets an assignment exactly when, at its turn, some guide has a   *)
(* seat left, a rate within the tourist's budget and a window intersecting *)
(* one of the tourist's with positive duration, whatever the preference    *)
(* score; no tourist gets more than one assignment, and a tourist without  *)
(* one takes no seat.                                                      *)
(***************************************************************************)
AssignedIffEligible ==
    Returned =>
        /\ \A i \in 1..Len(tourist_requests) :
              Len(tourist_requests[i].availability) > 0 =>
                  (Served(result.assignments, tourist_requests[i].tourist_id)
                      <=> \E j \in 1..Len(guide_offers) : EligibleAtTurn(j, i))
        /\ \A k, l \in 1..Len(result.assignments) :
              result.assignments[k].tourist_id = result.assignments[l].tourist_id => k = l
        /\ \A k \in 1..Len(result.assignments) :
              \E j \in 1..Len(guide_offers) :
                  guide_offers[j].guide_id = result.assignments[k].guide_id

(* One tourist went to a guide sharing none of its preferences; the next   *)
(* in turn found the only seat taken and was left out; nothing raised.     *)
EligibilityWitness ==
    /\ Returned
    /\ Len(guide_offers) = 1
    /\ Len(result.assignments) = 1
    /\ SharedLabels(TouristAt(result.assignments[1].tourist_id), 1) = 0
    /\ \E i \in 1..Len(tourist_requests) :
          /\ Len(tourist_requests[i].availability) > 0
          /\ ~Served(result.assignments, tourist_requests[i].tourist_id)
          /\ Affordable(tourist_requests[i], guide_offers[1])
          /\ Reachable(tourist_requests[i], guide_offers[1])

(***************************************************************************)
(* C28  Window used: the time_window of an assignment is the intersection  *)
(* [max of the starts, min of the ends) of the guide's window with the     *)
(* first, in list order, of the tourist's windows that intersects it with  *)
(* positive duration; later windows are not used, even if longer.          *)
(***************************************************************************)
WindowUsed ==
    Returned =>
        \A k \in 1..Len(result.assignments) :
            LET t == tourist_requests[TouristAt(result.assignments[k].tourist_id)]
                g == guide_offers[GuideAt(result.assignments[k].guide_id)]
            IN  \E n \in 1..Len(t.availability) :
                    /\ Intersects(t.availability[n], g.available_window)
                    /\ \A m \in 1..(n - 1) :
                          ~Intersects(t.availability[m], g.available_window)
                    /\ result.assignments[k].time_window.start
                          = (IF t.availability[n].start >= g.available_window.start
                             THEN t.availability[n].start ELSE g.available_window.start)
                    /\ result.assignments[k].time_window.end
                          = (IF t.availability[n].end <= g.available_window.end
                             THEN t.availability[n].end ELSE g.available_window.end)

(* A tourist with two windows that both intersect the guide's, the second  *)
(* longer, was assigned for the first; another tourist, whose first window *)
(* misses the guide's, was assigned for its second.                        *)
WindowUsedWitness ==
    /\ Returned
    /\ \E k \in 1..Len(result.assignments) :
          LET t == tourist_requests[TouristAt(result.assignments[k].tourist_id)]
              g == guide_offers[GuideAt(result.assignments[k].guide_id)]
          IN  /\ Len(t.availability) = 2
              /\ Intersects(t.availability[1], g.available_window)
              /\ Intersects(t.availability[2], g.available_window)
              /\ t.availability[2].end - t.availability[2].start
                    > t.availability[1].end - t.availability[1].start
              /\ result.assignments[k].time_window = t.availability[1]
    /\ \E k \in 1..Len(result.assignments) :
          LET t == tourist_requests[TouristAt(result.assignments[k].tourist_id)]
              g == guide_offers[GuideAt(result.assignments[k].guide_id)]
          IN  /\ Len(t.availability) = 2
              /\ ~Intersects(t.availability[1], g.available_window)
              /\ result.assignments[k].time_window = t.availability[2]

(***************************************************************************)
(* C30  Event counts per run: a completed run dispatches exactly one event *)
(* of kind assignment for each assignment it produced, in the order of the *)
(* assignment sequence, and after them exactly one event of kind metrics;  *)
(* a run without assignments still dispatches its metrics event.           *)
(***************************************************************************)
EventsOfKind(kind) == {n \in 1..Len(events) : events[n].event.type = kind}

EventCountsPerRun ==
    Completed =>
        /\ Cardinality(EventsOfKind("assignment")) = Len(result.assignments)
        /\ \A n \in EventsOfKind("assignment") :
              LET k == Cardinality({m \in EventsOfKind("assignment") : m <= n})
              IN  /\ events[n].event.tourist_id = result.assignments[k].tourist_id
                  /\ events[n].event.guide_id = result.assignments[k].guide_id
                  /\ events[n].event.total_cost = result.assignments[k].total_cost
        /\ Cardinality(EventsOfKind("metrics")) = 1
        /\ \A n \in EventsOfKind("assignment") : \A m \in EventsOfKind("metrics") : n < m
        /\ events[Len(events)].event.type = "metrics"

(* A run announced two assignments to two different guides, then its       *)
(* metrics.                                                                *)
EventCountsWitness ==
    /\ Completed
    /\ Len(result.assignments) = 2
    /\ result.assignments[1].guide_id # result.assignments[2].guide_id
    /\ Cardinality(EventsOfKind("assignment")) = 2
    /\ Cardinality(EventsOfKind("metrics")) = 1

(***************************************************************************)
(* C29  Notify after commit: the tourist_request / guide_offer event of a  *)
(* registration is handed to the sink only when the record is in the       *)
(* registry, the assignment and metrics events of a run only when the      *)
(* ledger is that run's output; a call that fails validation or leaves on  *)
(* an empty registry has sent no event.                                    *)
(***************************************************************************)
NotifyAfterCommit ==
    [][/\ Len(events') > Len(events) =>
              LET e == events'[Len(events')].event
              IN  /\ e.type = "tourist_request" =>
                        \E i \in 1..Len(tourist_requests) :
                            /\ tourist_requests[i] = calls[1].record
                            /\ tourist_requests[i].tourist_id = e.tourist_id
                  /\ e.type = "guide_offer" =>
                        \E j \in 1..Len(guide_offers) :
                            /\ guide_offers[j] = calls[1].record
                            /\ guide_offers[j].guide_id = e.guide_id
                  /\ e.type \in {"assignment", "metrics"} =>
                        assignments = calls[1].schedule
                  /\ e.type = "assignment" =>
                        \E k \in 1..Len(assignments) :
                            /\ assignments[k].tourist_id = e.tourist_id
                            /\ assignments[k].guide_id = e.guide_id
       /\ (calls # NoCalls /\ calls' = NoCalls
               /\ result'.status \in {"error", "no_tourists", "no_guides"})
              => events' = <<>>]_vars

(* The first event of a registration has gone out, to a sink that has not  *)
(* answered, and the new record stands in the registry in place of an      *)
(* older one of the same tourist.                                          *)
NotifyWitness ==
    /\ calls # NoCalls
    /\ calls[1].op = "register_tourist_request"
    /\ Len(events) = 1
    /\ events[1].event.type = "tourist_request"
    /\ events[1].delivery = "pending"
    /\ previous.op = "register_tourist_request"
    /\ Len(tourist_requests) = 1
    /\ tourist_requests[1] = calls[1].record
    /\ result.op = "register_tourist_request"
    /\ result.status = "registered"
    /\ result.request # calls[1].record

(***************************************************************************)
(* C24  No operation blocks indefinitely: every call of the five tools     *)
(* eventually returns, also when the notification sink never answers: the  *)
(* caller waits for each notification thread no longer than the timeout of *)
(* the join.                                                               *)
(***************************************************************************)
EveryCallReturns == (calls # NoCalls) ~> (calls = NoCalls)

(* A run returned "completed" after the sink had answered none of its      *)
(* three events.                                                           *)
EveryCallReturnsWitness ==
    /\ calls = NoCalls
    /\ Completed
    /\ Len(events) = 3
    /\ \A n \in 1..Len(events) : events[n].delivery = "pending"

(* The other of the two calls in flight.                                   *)
OtherCaller(c) == CHOOSE d \in Callers : d # c

AllReturned == \A c \in Callers : calls[c].pc = "done"

IdsIn(registry) == {IdOf(registry[n]) : n \in 1..Len(registry)}

(***************************************************************************)
(* C21  Matching runs on a consistent snapshot: a run_scheduling that      *)
(* overlaps a registration does not return "error", and the assignments it *)
(* returns and stores are the engine's output on the two registries as     *)
(* they stood at one instant during the call.                              *)
(***************************************************************************)
MatchingOnSnapshot ==
    \A c \in Callers :
        (/\ calls[c].op = "run_scheduling"
         /\ calls[c].pc = "done"
         /\ IsRegistration(calls[OtherCaller(c)].op))
        => /\ calls[c].returned.status # "error"
           /\ calls[c].returned.status = "completed" =>
                 /\ \E instant \in calls[c].seen :
                       calls[c].returned.assignments
                           = BuildSchedule(instant[1], instant[2])
                 /\ assignments = calls[c].returned.assignments

(***************************************************************************)
(* C22  Upsert is never observed half-done: while an identity that is      *)
(* registered is being registered again, a concurrent get_schedule_status  *)
(* counts every identity that was registered when the calls began, and a   *)
(* concurrent run_scheduling does not find the registry empty.             *)
(***************************************************************************)
UpsertNeverHalfDone ==
    \A c \in Callers :
        (/\ calls[c].pc = "done"
         /\ IsRegistration(calls[OtherCaller(c)].op)
         /\ IdOf(calls[OtherCaller(c)].request)
                \in IdsIn(calls[c].at_call[1]) \cup IdsIn(calls[c].at_call[2]))
        => /\ calls[c].op = "get_schedule_status" =>
                 /\ calls[c].returned.total_tourists
                        >= Cardinality(IdsIn(calls[c].at_call[1]))
                 /\ calls[c].returned.total_guides
                        >= Cardinality(IdsIn(calls[c].at_call[2]))
           /\ calls[c].op = "run_scheduling" =>
                 calls[c].returned.status \notin {"no_tourists", "no_guides"}

(***************************************************************************)
(* C23  Reset is atomic with respect to in-flight operations: when         *)
(* clear_scheduler_state and a run or a registration have both returned,   *)
(* the state is the cleared state, or the cleared state with the whole     *)
(* effect of the other call on it; the ledger holds no assignment whose    *)
(* tourist or guide is absent from the registries.                         *)
(***************************************************************************)
ResetAtomicInFlight ==
    \A c \in Callers :
        LET other == calls[OtherCaller(c)]
            cleared == /\ tourist_requests = SchedulerState.tourist_requests
                       /\ guide_offers = SchedulerState.guide_offers
                       /\ assignments = SchedulerState.assignments
            clearedThenOther ==
                CASE other.op = "register_tourist_request" ->
                        /\ tourist_requests = <<other.request>>
                        /\ guide_offers = SchedulerState.guide_offers
                        /\ assignments = SchedulerState.assignments
                  [] other.op = "register_guide_offer" ->
                        /\ tourist_requests = SchedulerState.tourist_requests
                        /\ guide_offers = <<other.request>>
                        /\ assignments = SchedulerState.assignments
                  [] OTHER -> cleared
        IN  (/\ AllReturned
             /\ calls[c].op = "clear_scheduler_state"
             /\ (IsRegistration(other.op) \/ other.op = "run_scheduling"))
            => /\ cleared \/ clearedThenOther
               /\ IdsOfTourists(assignments) \subseteq IdsIn(tourist_requests)
               /\ IdsOfGuides(assignments) \subseteq IdsIn(guide_offers)

(***************************************************************************)
(* C31  Event kinds, as stated: every event a registration or a run hands  *)
(* to the sink has a type among tourist_request, guide_offer, assignment   *)
(* and metrics.                                                            *)
(***************************************************************************)
DomainEventKinds == {"tourist_request", "guide_offer", "assignment"}

OnlyFourEventKinds ==
    \A n \in 1..Len(events) :
        events[n].event.type \in DomainEventKinds \cup {"metrics"}

(***************************************************************************)
(* C31  Event kinds, amended: the types are tourist_request, guide_offer,  *)
(* assignment, metrics and communication_event.  Every tourist_request,    *)
(* guide_offer and assignment event is followed at once by one             *)
(* communication_event, and a communication_event occurs nowhere else.     *)
(***************************************************************************)
FiveEventKinds ==
    /\ \A n \in 1..Len(events) :
          events[n].event.type
              \in DomainEventKinds \cup {"metrics", "communication_event"}
    /\ \A n \in 1..Len(events) :
          events[n].event.type \in DomainEventKinds =>
              /\ n < Len(events)
              /\ events[n + 1].event.type = "communication_event"
    /\ \A n \in 1..Len(events) :
          events[n].event.type = "communication_event" =>
              /\ n > 1
              /\ events[n - 1].event.type \in DomainEventKinds

(* A run announced an assignment: assignment, communication_event,         *)
(* metrics.                                                                *)
FiveEventKindsWitness ==
    /\ Completed
    /\ Len(events) = 3
    /\ events[1].event.type = "assignment"
    /\ events[2].event.type = "communication_event"
    /\ events[3].event.type = "metrics"

(* The ledger agrees with the registries as they are now.                  *)
LedgerAgreesWithRegistries ==
    /\ \A k \in 1..Len(assignments) :
          /\ assignments[k].time_window.start < assignments[k].time_window.end
          /\ \E i \in 1..Len(tourist_requests) :
                /\ tourist_requests[i].tourist_id = assignments[k].tourist_id
                /\ \E w \in 1..Len(tourist_requests[i].availability) :
                      Contains(tourist_requests[i].availability[w],
                               assignments[k].time_window)
          /\ \E j \in 1..Len(guide_offers) :
                /\ guide_offers[j].guide_id = assignments[k].guide_id
                /\ Contains(guide_offers[j].available_window,
                            assignments[k].time_window)
    /\ \A j \in 1..Len(guide_offers) :
          SeatsTaken(assignments, guide_offers[j].guide_id)
              <= guide_offers[j].max_group_size

(***************************************************************************)
(* C32  Ledger consistent with the registries, as stated: in every         *)
(* reachable state, also after registrations that follow a run, each       *)
(* assignment of the ledger has a non-empty time_window inside the         *)
(* registered window of its tourist and of its guide, and no guide occurs  *)
(* in the ledger more often than its registered max_group_size.            *)
(***************************************************************************)
LedgerAlwaysConsistent == LedgerAgreesWithRegistries

(***************************************************************************)
(* C32  amended: the ledger agrees with the registries in the state a      *)
(* completed run leaves, that is with the registries the run was executed  *)
(* on.                                                                     *)
(***************************************************************************)
LedgerConsistentAfterRun == Completed => LedgerAgreesWithRegistries

(* A run gave two tourists seats of one guide.                             *)
LedgerConsistentWitness ==
    /\ Completed
    /\ Len(assignments) = 2
    /\ assignments[1].guide_id = assignments[2].guide_id
    /\ \E j \in 1..Len(guide_offers) :
          /\ guide_offers[j].guide_id = assignments[1].guide_id
          /\ guide_offers[j].max_group_size >= 2

(***************************************************************************)
(* C33  No blocking pair after a run: for every tourist with a window that *)
(* the output leaves unassigned and every guide with a seat left in the    *)
(* output, the guide's rate is above the tourist's budget or the guide's   *)
(* window has no overlap of positive duration with any window of the       *)
(* tourist.                                                                *)
(***************************************************************************)
NoBlockingPair ==
    Returned =>
        \A i \in 1..Len(tourist_requests), j \in 1..Len(guide_offers) :
            (/\ Len(tourist_requests[i].availability) >= 1
             /\ ~Served(result.assignments, tourist_requests[i].tourist_id)
             /\ SeatsTaken(result.assignments, guide_offers[j].guide_id)
                    < guide_offers[j].max_group_size)
            => \/ ~Affordable(tourist_requests[i], guide_offers[j])
               \/ ~Reachable(tourist_requests[i], guide_offers[j])

(* One tourist is served by a guide that keeps a free seat; another, with  *)
(* a window overlapping that guide's, stays unassigned because the rate is *)
(* above its budget.                                                       *)
NoBlockingPairWitness ==
    /\ Returned
    /\ \E i, h \in 1..Len(tourist_requests), j \in 1..Len(guide_offers) :
          /\ Served(result.assignments, tourist_requests[h].tourist_id)
          /\ Len(tourist_requests[i].availability) >= 1
          /\ ~Served(result.assignments, tourist_requests[i].tourist_id)
          /\ SeatsTaken(result.assignments, guide_offers[j].guide_id) >= 1
          /\ SeatsTaken(result.assignments, guide_offers[j].guide_id)
                 < guide_offers[j].max_group_size
          /\ Reachable(tourist_requests[i], guide_offers[j])
          /\ ~Affordable(tourist_requests[i], guide_offers[j])

(***************************************************************************)
(* C34  One assignment per tourist: on a registry of unique tourist        *)
(* identities each tourist_id occurs in at most one assignment of the      *)
(* output, so the distinct tourists served are as many as the assignments  *)
(* and no more than the registered tourists.                               *)
(***************************************************************************)
OneAssignmentPerTourist ==
    (/\ Returned
     /\ \A i, j \in 1..Len(tourist_requests) :
           tourist_requests[i].tourist_id = tourist_requests[j].tourist_id
               => i = j)
    => /\ \A k, l \in 1..Len(result.assignments) :
             result.assignments[k].tourist_id = result.assignments[l].tourist_id
                 => k = l
       /\ Cardinality(IdsOfTourists(result.assignments))
              = Len(result.assignments)
       /\ Len(result.assignments) <= Len(tourist_requests)

(* Three tourists, all served, while a guide that one of them could have   *)
(* taken as well keeps a seat.                                             *)
OneAssignmentWitness ==
    /\ Returned
    /\ Len(tourist_requests) = 3
    /\ Len(result.assignments) = 3
    /\ \E i \in 1..Len(tourist_requests), j \in 1..Len(guide_offers) :
          /\ SeatsTaken(result.assignments, guide_offers[j].guide_id)
                 < guide_offers[j].max_group_size
          /\ Affordable(tourist_requests[i], guide_offers[j])
          /\ Reachable(tourist_requests[i], guide_offers[j])

(***************************************************************************)
(* C35  Status bounds: with the calls executed one at a time, every        *)
(* tourist_id and guide_id of the ledger is in its registry, and           *)
(* get_schedule_status reports pending_tourists >= 0, available_guides >=  *)
(* 0 and both percentages between 0 and 100 (here in tenths of a percent). *)
(***************************************************************************)
StatusBounds ==
    /\ IdsOfTourists(assignments)
           \subseteq {tourist_requests[i].tourist_id : i \in 1..Len(tourist_requests)}
    /\ IdsOfGuides(assignments)
           \subseteq {guide_offers[j].guide_id : j \in 1..Len(guide_offers)}
    /\ result.op = "get_schedule_status" =>
          /\ result.pending_tourists >= 0
          /\ result.available_guides >= 0
          /\ result.tourist_satisfaction_pct \in 0..1000
          /\ result.guide_utilization_pct \in 0..1000

(* The status of a ledger of two assignments that a later registration     *)
(* has left behind: every tourist served, every guide used.                *)
StatusBoundsWitness ==
    /\ result.op = "get_schedule_status"
    /\ Len(assignments) = 2
    /\ ~LedgerAgreesWithRegistries
    /\ result.pending_tourists = 0
    /\ result.available_guides = 0
    /\ result.tourist_satisfaction_pct = 1000
    /\ result.guide_utilization_pct = 1000

(* The registry without the records of id, the others in their order.      *)
TouristsOtherThan(id) ==
    LET Other(r) == r.tourist_id # id
    IN  SelectSeq(tourist_requests, Other)

GuidesOtherThan(id) ==
    LET Other(r) == r.guide_id # id
    IN  SelectSeq(guide_offers, Other)

(***************************************************************************)
(* C36  Re-registration moves to the back: registering an identity that is *)
(* in the registry removes its record and appends the new one at the end,  *)
(* the other records keeping their order.  In the runs that follow, a      *)
(* guide gets a tourist only if no guide before it in the registry is      *)
(* eligible with the same or a higher score, and tourists with the same    *)
(* first start are served in the order of the registry.                    *)
(***************************************************************************)
ReRegistrationMovesBack ==
    /\ [][/\ (/\ result'.op = "register_guide_offer"
              /\ result'.status = "registered"
              /\ \E j \in 1..Len(guide_offers) :
                    guide_offers[j].guide_id = result'.guide_id)
             => guide_offers'
                    = Append(GuidesOtherThan(result'.guide_id), result'.offer)
          /\ (/\ result'.op = "register_tourist_request"
              /\ result'.status = "registered"
              /\ \E i \in 1..Len(tourist_requests) :
                    tourist_requests[i].tourist_id = result'.tourist_id)
             => tourist_requests'
                    = Append(TouristsOtherThan(result'.tourist_id),
                             result'.request)]_vars
    /\ [](Completed =>
            /\ \A k \in 1..Len(result.assignments) :
                  LET i == TouristAt(result.assignments[k].tourist_id)
                      j == GuideAt(result.assignments[k].guide_id)
                  IN  \A other \in 1..(j - 1) :
                          EligibleAtTurn(other, i) =>
                              SharedLabels(i, other) < SharedLabels(i, j)
            /\ \A k, l \in 1..Len(result.assignments) :
                  LET i == TouristAt(result.assignments[k].tourist_id)
                      h == TouristAt(result.assignments[l].tourist_id)
                  IN  (k < l /\ FirstStart(i) = FirstStart(h)) => i < h)

(* A run gave its first tourist to g1 and its second to g2, so g1 stood    *)
(* before g2 and had one seat; g1 has been registered again since and now  *)
(* stands behind g2.                                                       *)
ReRegistrationWitness ==
    /\ result.op = "register_guide_offer"
    /\ result.status = "registered"
    /\ result.guide_id = "g1"
    /\ Len(guide_offers) = 2
    /\ guide_offers[1].guide_id = "g2"
    /\ guide_offers[2].guide_id = "g1"
    /\ Len(assignments) = 2
    /\ assignments[1].guide_id = "g1"
    /\ assignments[2].guide_id = "g2"

(***************************************************************************)
(* C37  Registrations and runs touch disjoint parts of the state:          *)
(* register_tourist_request leaves the guide registry and the ledger as    *)
(* they are, register_guide_offer the tourist registry and the ledger, and *)
(* run_scheduling both registries.                                         *)
(***************************************************************************)
DisjointFrames ==
    [][/\ result'.op = "register_tourist_request" =>
              /\ guide_offers' = guide_offers
              /\ assignments' = assignments
       /\ result'.op = "register_guide_offer" =>
              /\ tourist_requests' = tourist_requests
              /\ assignments' = assignments
       /\ result'.op = "run_scheduling" =>
              /\ tourist_requests' = tourist_requests
              /\ guide_offers' = guide_offers]_vars

(* A tourist of the ledger has been registered again with another window:  *)
(* the assignment of the earlier run is still in the ledger.               *)
DisjointFramesWitness ==
    /\ result.op = "register_tourist_request"
    /\ result.status = "registered"
    /\ previous.op = "run_scheduling"
    /\ previous.status = "completed"
    /\ \E k \in 1..Len(assignments) :
          /\ assignments[k].tourist_id = result.tourist_id
          /\ ~Contains(result.request.availability[1], assignments[k].time_window)

(***************************************************************************)
(* C38  Single window per registered tourist: every record that            *)
(* register_tourist_request places in the registry has exactly one         *)
(* availability window, so no run started through the tools meets a        *)
(* tourist with no window or with several.                                 *)
(***************************************************************************)
SingleWindowPerTourist ==
    /\ \A i \in 1..Len(tourist_requests) :
          Len(tourist_requests[i].availability) = 1
    /\ (result.op = "register_tourist_request" /\ result.status = "registered")
          => Len(result.request.availability) = 1

(* t1 stood before t2 when the run served them; t1 has been registered     *)
(* again since, with another window, and is last in the registry.          *)
SingleWindowWitness ==
    /\ result.op = "register_tourist_request"
    /\ result.status = "registered"
    /\ result.tourist_id = "t1"
    /\ Len(tourist_requests) = 2
    /\ tourist_requests[1].tourist_id = "t2"
    /\ tourist_requests[2] = result.request
    /\ Len(assignments) = 2
    /\ assignments[1].tourist_id = "t1"
    /\ assignments[2].tourist_id = "t2"
    /\ assignments[1].time_window # tourist_requests[2].availability[1]

(***************************************************************************)
(* C39  Bounded retry in the agent clients: the registration message is    *)
(* sent at most 30 times and never again after an attempt has succeeded;   *)
(* when all 30 attempts have failed the error goes to the caller; the      *)
(* tourist client sends its scheduling request only after a registration   *)
(* attempt has succeeded.                                                  *)
(***************************************************************************)
BoundedRetry ==
    /\ [][calls[1].succeeded => calls'[1].sent = calls[1].sent]_vars
    /\ [](/\ calls[1].sent <= max_retries
          /\ (calls[1].sent = max_retries /\ ~calls[1].succeeded)
                => calls[1].pc = "raised"
          /\ (calls[1].pc = "raised" /\ ~calls[1].succeeded)
                => calls[1].sent = max_retries
          /\ calls[1].schedule_requests > 0
                => /\ calls[1].succeeded
                   /\ calls[1].op = "run_tourist_agent"
                   /\ calls[1].schedule_requests = 1)

(* The tourist client was answered at its last attempt and has sent its    *)
(* scheduling request.                                                     *)
BoundedRetryWitness ==
    /\ calls # NoCalls
    /\ calls[1].op = "run_tourist_agent"
    /\ calls[1].pc = "done"
    /\ calls[1].sent = max_retries
    /\ calls[1].succeeded
    /\ calls[1].schedule_requests = 1

====
